---- MODULE Spec2Model ----
(***************************************************************************)
(* Request-queue coordination over a shared SQLite store.                  *)
(*                                                                         *)
(* The controller side (TestCoordinator, AssetRefreshCoordinator) submits, *)
(* cancels and lists work items; the executor inside the host application  *)
(* claims and finishes them.  Each operation is one SQL statement (plus    *)
(* its commit) on its own connection; SQLite serialises write              *)
(* transactions, so every operation is one atomic step of the model and    *)
(* concurrency between the two processes is the interleaving of steps.     *)
(* A behaviour holds at most MaxOps such steps, in any order and by any    *)
(* party, over at most MaxRequests rows and MaxClock ticks of the clock.   *)
(***************************************************************************)
EXTENDS Integers, Sequences, FiniteSets, TLC

\* ------------------------------------------------------------------ bounds

\* Rows ever inserted into the two request tables together.
MaxRequests == 2

\* Readings of the timestamp clock: 0 .. MaxClock.
MaxClock == 1

\* Store operations (statements of the controller, the executor and an
\* outside deleter together) in one behaviour.
MaxOps == 4

\* Readings of the clock over which a wait_for_completion call is followed:
\* 0 .. MaxWall.
MaxWall == 3

\* Statements of the other parties in a behaviour that follows a wait.
MaxWaitOps == 2

\* Rows the system_status table comes to hold.
MaxStatusRows == 3

\* Entries the executor appends to console_logs.
MaxLogs == 3

\* The largest reading of the clock the console log is written and read at.
MaxLogClock == 3

\* A day, in ticks of the clock; days are the unit of clear_old_logs.
TicksPerDay == 2

\* Rows the executor writes to test_results.
MaxResults == 2

\* ------------------------------------------------------------------ values

\* SQL NULL / Python None; a present value v is Some(v).
NULL == <<>>

Some(v) == <<v>>

Terminal == {"completed", "failed", "cancelled"}

Cancellable == {"pending", "running"}

\* Ids a caller may name; a table holding fewer than MaxRequests rows has no
\* row for the larger ones.
RequestIds == 1 .. MaxRequests

\* Arguments of submit_test_request: a class run at priority 5 and a run of
\* everything at the default priority 0.
TestSubmits ==
    { [payload |-> [request_type |-> "class", test_filter |-> Some("FooTests"),
                    test_platform |-> "EditMode"],
       priority |-> 5],
      [payload |-> [request_type |-> "all", test_filter |-> NULL, test_platform |-> "Both"],
       priority |-> 0] }

\* Arguments of submit_refresh_request: a selective refresh of two paths at
\* priority 5 and a full refresh at the default priority 0.
RefreshSubmits ==
    { [payload |-> [refresh_type |-> "selective",
                    paths |-> Some(<<"Assets/A.png", "Assets/B.png">>),
                    import_options |-> "force_update"],
       priority |-> 5],
      [payload |-> [refresh_type |-> "full", paths |-> NULL, import_options |-> "default"],
       priority |-> 0] }

\* Arguments of submit_test_request whose .value is outside the column's
\* domain: a RefreshType member given as request_type, and one given as
\* platform.
BadTestSubmits ==
    { [payload |-> [request_type |-> "full", test_filter |-> NULL, test_platform |-> "EditMode"],
       priority |-> 0],
      [payload |-> [request_type |-> "all", test_filter |-> NULL, test_platform |-> "selective"],
       priority |-> 5] }

\* Arguments of submit_refresh_request whose .value is outside the column's
\* domain: a TestRequestType member given as refresh_type, and one given as
\* import_options.
BadRefreshSubmits ==
    { [payload |-> [refresh_type |-> "all", paths |-> NULL, import_options |-> "default"],
       priority |-> 0],
      [payload |-> [refresh_type |-> "full", paths |-> Some(<<"Assets/A.png">>),
                    import_options |-> "class"],
       priority |-> 5] }

\* Arguments of submit_refresh_request that differ in paths alone: none, the
\* empty list, one path, two paths and the same two the other way round.
PathSubmits ==
    { [payload |-> [refresh_type |-> "selective", paths |-> p, import_options |-> "default"],
       priority |-> 0] :
      p \in { NULL, Some(<<>>), Some(<<"Assets/A.png">>),
               Some(<<"Assets/A.png", "Assets/B.png">>),
               Some(<<"Assets/B.png", "Assets/A.png">>) } }

\* ------------------------------------------------------------------ state

VARIABLES
    test_requests,            \* table test_requests: id -> row
    test_seq,                 \* AUTOINCREMENT counter of test_requests
    asset_refresh_requests,   \* table asset_refresh_requests: id -> row
    refresh_seq,              \* AUTOINCREMENT counter of asset_refresh_requests
    execution_log,            \* table execution_log, in insertion order
    terminal_writes,          \* per table and id: updates into a terminal status that reported rowcount > 0
    issued,                   \* per table: the ids submit has returned so far
    now,                      \* the clock CURRENT_TIMESTAMP / datetime.now() read
    ret,                      \* what the last operation returned to its caller
    ops,                      \* store operations performed so far
    wait,                     \* the wait_for_completion call in progress: its locals and outcome
    store_exists,             \* whether the database file with its tables exists
    system_status,            \* table system_status, in insertion order
    status_seq,               \* AUTOINCREMENT counter of system_status
    tables,                   \* the names sqlite_master lists with type 'table'
    console_logs,             \* table console_logs, in id order
    log_seq,                  \* AUTOINCREMENT counter of console_logs
    monitor,                  \* the monitor_logs loop in progress: its filters, last_id and what it printed
    prune,                    \* the clear_old_logs call in progress: its cutoff, count and what it deleted
    test_results,             \* table test_results, in insertion order
    txn                       \* the submit_test_request call in progress: its connection's uncommitted rows

vars == <<test_requests, test_seq, asset_refresh_requests, refresh_seq,
          execution_log, terminal_writes, issued, now, ret, ops, wait,
          store_exists, system_status, status_seq, tables,
          console_logs, log_seq, monitor, prune, test_results, txn>>

\* The two request ledgers and their audit trail.
ledgerVars == <<test_requests, test_seq, asset_refresh_requests, refresh_seq,
                execution_log, terminal_writes, issued, test_results, txn>>

\* The console log and the calls that read and prune it.
logVars == <<console_logs, log_seq, monitor, prune>>

\* The status registry and the store it lives in.
statusVars == <<store_exists, system_status, status_seq>>

\* ------------------------------------------------------------------ store

\* The text json.dumps makes of a list of strings, as its tokens: the
\* brackets, and each string between quotes with commas between them.
RECURSIVE json_items(_)
json_items(list) ==
    IF list = <<>> THEN <<>>
    ELSE IF Len(list) = 1 THEN <<"\"", list[1], "\"">>
    ELSE <<"\"", list[1], "\"", ",">> \o json_items(Tail(list))

json_dumps(list) == <<"[">> \o json_items(list) \o <<"]">>

\* json.loads of such a text: the strings found between the quotes, in the
\* order of the text.
json_loads(text) == [k \in 1 .. (Len(text) - 1) \div 4 |-> text[4 * k - 1]]

\* Python truthiness of the paths argument: None and [] are falsy.
Truthy(paths) == paths # NULL /\ paths[1] # <<>>

\* A fresh test_requests row: the INSERT's columns, the rest column defaults.
NewTestRow(id, payload, priority) ==
    [ id |-> id,
      request_type |-> payload.request_type,
      test_filter |-> payload.test_filter,
      test_platform |-> payload.test_platform,
      status |-> "pending",
      priority |-> priority,
      created_at |-> now,
      started_at |-> NULL,
      completed_at |-> NULL,
      result_summary |-> NULL,
      error_message |-> NULL,
      total_tests |-> 0,
      passed_tests |-> 0,
      failed_tests |-> 0,
      skipped_tests |-> 0,
      duration_seconds |-> 0 ]

\* A fresh asset_refresh_requests row.
NewRefreshRow(id, payload, priority) ==
    [ id |-> id,
      refresh_type |-> payload.refresh_type,
      paths |-> IF Truthy(payload.paths) THEN Some(json_dumps(payload.paths[1])) ELSE NULL,
      import_options |-> payload.import_options,
      status |-> "pending",
      priority |-> priority,
      created_at |-> now,
      started_at |-> NULL,
      completed_at |-> NULL,
      duration_seconds |-> 0,
      result_message |-> NULL,
      error_message |-> NULL ]

NoWrites == [cancel |-> 0, executor |-> 0]

\* No wait_for_completion call has been made.
NoWait ==
    [ pc |-> "idle", table |-> "none", id |-> 0, timeout |-> 0, poll_interval |-> 0,
      start_time |-> 0, last_status |-> NULL, wake_at |-> 0, checks |-> 0,
      printed |-> <<>>, result |-> NULL, raised |-> "none", end_time |-> 0, open |-> 0 ]

\* The row create_database inserts: component, status and message from the
\* INSERT, last_heartbeat and metadata by column default.
InitialStatusRow(id, at) ==
    [ id |-> id,
      component |-> "Database",
      status |-> "online",
      last_heartbeat |-> Some(at),
      message |-> Some("Database initialized successfully"),
      metadata |-> NULL ]

\* The six tables create_database makes, in the order of its statements.
ExpectedTables ==
    <<"test_requests", "test_results", "system_status", "execution_log",
      "asset_refresh_requests", "console_logs">>

\* The tables of a store after CREATE TABLE of the given ones: SQLite adds
\* its own sqlite_sequence with the first AUTOINCREMENT table.
WithSequence(names) == IF names = {} THEN {} ELSE names \cup {"sqlite_sequence"}

Range(f) == {f[i] : i \in DOMAIN f}

\* No monitor_logs loop is running.
NoMonitor ==
    [ pc |-> "idle", session_id |-> NULL, log_level |-> NULL, last_id |-> 0,
      reads |-> 0, new_logs |-> <<>>, printed |-> <<>>, open |-> 0 ]

\* No submit_test_request call is between its connect and its close.
NoTxn == [pc |-> "idle"]

\* No clear_old_logs call has been made.
NoPrune ==
    [ pc |-> "idle", days_old |-> 0, call_time |-> 0, count |-> 0,
      deleted |-> {}, appended |-> 0 ]

\* The coordinators are constructed on a store that create_database has
\* made, at time 0.
Init ==
    /\ store_exists = TRUE
    /\ tables = WithSequence(Range(ExpectedTables))
    /\ console_logs = <<>>
    /\ log_seq = 0
    /\ monitor = NoMonitor
    /\ prune = NoPrune
    /\ test_results = <<>>
    /\ txn = NoTxn
    /\ system_status = <<InitialStatusRow(1, 0)>>
    /\ status_seq = 1
    /\ test_requests = <<>>
    /\ test_seq = 0
    /\ asset_refresh_requests = <<>>
    /\ refresh_seq = 0
    /\ execution_log = <<>>
    /\ terminal_writes = [t \in {"test", "refresh"} |-> [i \in RequestIds |-> NoWrites]]
    /\ issued = [t \in {"test", "refresh"} |-> {}]
    /\ now = 0
    /\ ret = [op |-> "none"]
    /\ ops = 0
    /\ wait = NoWait

\* The clock advances between operations; operations within one reading of
\* it get equal timestamps.
Tick ==
    /\ now < MaxClock
    /\ now' = now + 1
    /\ UNCHANGED <<test_requests, test_seq, asset_refresh_requests, refresh_seq,
                   execution_log, terminal_writes, issued, ret, ops, wait>>

\* ------------------------------------------------------------------ submit

\* Variant: a plain INTEGER PRIMARY KEY, which hands out max(id) + 1.
Test_lastrowid_max_rowid ==
    IF DOMAIN test_requests = {} THEN 1
    ELSE 1 + CHOOSE m \in DOMAIN test_requests : \A i \in DOMAIN test_requests : i <= m

\* cursor.lastrowid of an INSERT into an INTEGER PRIMARY KEY AUTOINCREMENT
\* table: one more than the largest id the table has ever held.
Test_lastrowid == test_seq + 1

Refresh_lastrowid == refresh_seq + 1

\* Variant: the CHECK on test_platform is missing from the table.
Test_check_request_type_only(payload) ==
    payload.request_type \in {"all", "class", "method", "category"}

\* The CHECK constraints of test_requests on the columns the INSERT writes.
Test_check(payload) ==
    /\ payload.request_type \in {"all", "class", "method", "category"}
    /\ payload.test_platform \in {"EditMode", "PlayMode", "Both"}

\* The CHECK constraints of asset_refresh_requests on the columns the INSERT
\* writes.
Refresh_check(payload) ==
    /\ payload.refresh_type \in {"full", "selective"}
    /\ payload.import_options \in {"default", "synchronous", "force_update"}

\* The error the two INSERTs of submit_test_request end in, if any: the
\* request row needs its table and has to pass the CHECK constraints, the
\* log row needs execution_log.
Test_insert_error(payload) ==
    IF "test_requests" \notin tables THEN "OperationalError"
    ELSE IF ~Test_check(payload) THEN "IntegrityError"
    ELSE IF "execution_log" \notin tables THEN "OperationalError"
    ELSE "none"

\* The error the INSERT of submit_refresh_request ends in, if any.
Refresh_insert_error(payload) ==
    IF "asset_refresh_requests" \notin tables THEN "OperationalError"
    ELSE IF ~Refresh_check(payload) THEN "IntegrityError"
    ELSE "none"

\* except sqlite3.Error as e: print, conn.rollback(), raise.  The rollback
\* undoes the request row when it was the log row that failed.
submit_test_request(payload, priority) ==
    /\ test_seq + refresh_seq < MaxRequests
    /\ LET request_id == Test_lastrowid
           error == Test_insert_error(payload)
       IN  IF error # "none"
           THEN /\ ret' = [op |-> "submit_test_request", payload |-> payload,
                           priority |-> priority, raised |-> error]
                /\ UNCHANGED <<test_requests, test_seq, issued, execution_log>>
           ELSE
       /\ test_requests' = [i \in DOMAIN test_requests \cup {request_id} |->
                               IF i = request_id THEN NewTestRow(request_id, payload, priority)
                               ELSE test_requests[i]]
       /\ test_seq' = request_id
       /\ issued' = [issued EXCEPT !["test"] = @ \cup {request_id}]
       /\ execution_log' = Append(execution_log,
              [ id |-> Len(execution_log) + 1,
                request_id |-> request_id,
                log_level |-> "INFO",
                source |-> "Python",
                message |-> <<"Test request submitted", payload.request_type, payload.test_platform>> ])
       /\ ret' = [op |-> "submit_test_request", payload |-> payload, priority |-> priority,
                  result |-> request_id]
    /\ UNCHANGED <<asset_refresh_requests, refresh_seq, terminal_writes, now>>

\* except sqlite3.Error as e: print, raise; nothing was committed.
submit_refresh_request(payload, priority) ==
    /\ test_seq + refresh_seq < MaxRequests
    /\ LET request_id == Refresh_lastrowid
           error == Refresh_insert_error(payload)
       IN  IF error # "none"
           THEN /\ ret' = [op |-> "submit_refresh_request", payload |-> payload,
                           priority |-> priority, raised |-> error]
                /\ UNCHANGED <<asset_refresh_requests, refresh_seq, issued>>
           ELSE
       /\ asset_refresh_requests' = [i \in DOMAIN asset_refresh_requests \cup {request_id} |->
                               IF i = request_id THEN NewRefreshRow(request_id, payload, priority)
                               ELSE asset_refresh_requests[i]]
       /\ refresh_seq' = request_id
       /\ issued' = [issued EXCEPT !["refresh"] = @ \cup {request_id}]
       /\ ret' = [op |-> "submit_refresh_request", payload |-> payload, priority |-> priority,
                  result |-> request_id]
    /\ UNCHANGED <<test_requests, test_seq, execution_log, terminal_writes, now>>

\* ------------------------------------------------------------------ cancel

\* Variant: WHERE id = ? alone.
Test_cancel_update_any_status(rows, request_id) ==
    IF request_id \in DOMAIN rows
    THEN [rows |-> [rows EXCEPT ![request_id] =
                        [@ EXCEPT !.status = "cancelled",
                                  !.completed_at = Some(now),
                                  !.error_message = Some("Cancelled by user")]],
          rowcount |-> 1]
    ELSE [rows |-> rows, rowcount |-> 0]

\* Variant: WHERE id = ? AND status IN ('pending', 'running', 'cancelled').
Test_cancel_update_recancel(rows, request_id) ==
    IF request_id \in DOMAIN rows /\ rows[request_id].status \in Cancellable \cup {"cancelled"}
    THEN [rows |-> [rows EXCEPT ![request_id] =
                        [@ EXCEPT !.status = "cancelled",
                                  !.completed_at = Some(now),
                                  !.error_message = Some("Cancelled by user")]],
          rowcount |-> 1]
    ELSE [rows |-> rows, rowcount |-> 0]

\* Variant: SET status = 'cancelled', error_message = 'Cancelled by user',
\* completed_at left as it is.
Test_cancel_update_without_completed_at(rows, request_id) ==
    IF request_id \in DOMAIN rows /\ rows[request_id].status \in Cancellable
    THEN [rows |-> [rows EXCEPT ![request_id] =
                        [@ EXCEPT !.status = "cancelled",
                                  !.error_message = Some("Cancelled by user")]],
          rowcount |-> 1]
    ELSE [rows |-> rows, rowcount |-> 0]

\* UPDATE test_requests SET status = 'cancelled', completed_at = CURRENT_TIMESTAMP,
\* error_message = 'Cancelled by user' WHERE id = ? AND status IN ('pending', 'running')
Test_cancel_update(rows, request_id) ==
    IF request_id \in DOMAIN rows /\ rows[request_id].status \in Cancellable
    THEN [rows |-> [rows EXCEPT ![request_id] =
                        [@ EXCEPT !.status = "cancelled",
                                  !.completed_at = Some(now),
                                  !.error_message = Some("Cancelled by user")]],
          rowcount |-> 1]
    ELSE [rows |-> rows, rowcount |-> 0]

\* Variant: WHERE id = ? alone.
Refresh_cancel_update_any_status(rows, request_id) ==
    IF request_id \in DOMAIN rows
    THEN [rows |-> [rows EXCEPT ![request_id] =
                        [@ EXCEPT !.status = "cancelled",
                                  !.completed_at = Some(now)]],
          rowcount |-> 1]
    ELSE [rows |-> rows, rowcount |-> 0]

\* Variant: WHERE id = ? AND status = 'pending'.
Refresh_cancel_update_pending_only(rows, request_id) ==
    IF request_id \in DOMAIN rows /\ rows[request_id].status = "pending"
    THEN [rows |-> [rows EXCEPT ![request_id] =
                        [@ EXCEPT !.status = "cancelled",
                                  !.completed_at = Some(now)]],
          rowcount |-> 1]
    ELSE [rows |-> rows, rowcount |-> 0]

\* Variant: WHERE id = ? AND status != 'cancelled'.
Refresh_cancel_update_not_cancelled(rows, request_id) ==
    IF request_id \in DOMAIN rows /\ rows[request_id].status # "cancelled"
    THEN [rows |-> [rows EXCEPT ![request_id] =
                        [@ EXCEPT !.status = "cancelled",
                                  !.completed_at = Some(now)]],
          rowcount |-> 1]
    ELSE [rows |-> rows, rowcount |-> 0]

\* UPDATE asset_refresh_requests SET status = 'cancelled', completed_at = ?
\* WHERE id = ? AND status IN ('pending', 'running')
Refresh_cancel_update(rows, request_id) ==
    IF request_id \in DOMAIN rows /\ rows[request_id].status \in Cancellable
    THEN [rows |-> [rows EXCEPT ![request_id] =
                        [@ EXCEPT !.status = "cancelled",
                                  !.completed_at = Some(now)]],
          rowcount |-> 1]
    ELSE [rows |-> rows, rowcount |-> 0]

\* What cancel_request hands back for the statement's rowcount: True after
\* the commit, False otherwise; neither branch raises.
Test_cancel_result(rowcount) ==
    IF rowcount > 0 THEN [result |-> TRUE, raised |-> "none"]
    ELSE [result |-> FALSE, raised |-> "none"]

\* Variant: a statement that matched no row is reported by raising.
Refresh_cancel_result_raises(rowcount) ==
    IF rowcount > 0 THEN [result |-> TRUE, raised |-> "none"]
    ELSE [result |-> FALSE, raised |-> "ValueError"]

Refresh_cancel_result(rowcount) ==
    IF rowcount > 0 THEN [result |-> TRUE, raised |-> "none"]
    ELSE [result |-> FALSE, raised |-> "none"]

\* The writes into a terminal status that changed a row, per writer.
CountWrite(table, request_id, writer, rowcount) ==
    IF rowcount > 0
    THEN [terminal_writes EXCEPT ![table][request_id][writer] = @ + 1]
    ELSE terminal_writes

\* except sqlite3.Error as e: print, conn.rollback(), return False.
Test_cancel_on_error(error) == [result |-> FALSE, raised |-> "none"]

\* The UPDATE fails when test_requests does not exist.
Test_cancel_request(request_id) ==
    LET missing == "test_requests" \notin tables
        upd == IF missing THEN [rows |-> test_requests, rowcount |-> 0]
               ELSE Test_cancel_update(test_requests, request_id)
        out == IF missing THEN Test_cancel_on_error("OperationalError")
               ELSE Test_cancel_result(upd.rowcount)
    IN  /\ test_requests' = upd.rows
        /\ terminal_writes' = CountWrite("test", request_id, "cancel", upd.rowcount)
        /\ ret' = [op |-> "cancel_request", table |-> "test", id |-> request_id,
                   result |-> out.result, raised |-> out.raised]
        /\ UNCHANGED <<test_seq, asset_refresh_requests, refresh_seq, execution_log, issued, now>>

Refresh_cancel_request(request_id) ==
    LET upd == Refresh_cancel_update(asset_refresh_requests, request_id)
        out == Refresh_cancel_result(upd.rowcount)
    IN  /\ asset_refresh_requests' = upd.rows
        /\ terminal_writes' = CountWrite("refresh", request_id, "cancel", upd.rowcount)
        /\ ret' = [op |-> "cancel_request", table |-> "refresh", id |-> request_id,
                   result |-> out.result, raised |-> out.raised]
        /\ UNCHANGED <<test_requests, test_seq, refresh_seq, execution_log, issued, now>>

\* ------------------------------------------------------------------ executor

\* The executor's claim: status = 'running', started_at = now, only where the
\* row is still pending.
Executor_claim_update(rows, request_id) ==
    IF request_id \in DOMAIN rows /\ rows[request_id].status = "pending"
    THEN [rows |-> [rows EXCEPT ![request_id] =
                        [@ EXCEPT !.status = "running", !.started_at = Some(now)]],
          rowcount |-> 1]
    ELSE [rows |-> rows, rowcount |-> 0]

\* Outcomes the executor records for a test run.
TestOutcomes ==
    { [status |-> "completed", result_summary |-> Some("1 passed"), error_message |-> NULL,
       total_tests |-> 1, passed_tests |-> 1, failed_tests |-> 0, skipped_tests |-> 0],
      [status |-> "failed", result_summary |-> NULL, error_message |-> Some("Test run failed"),
       total_tests |-> 0, passed_tests |-> 0, failed_tests |-> 0, skipped_tests |-> 0] }

\* Outcomes the executor records for an asset refresh.
RefreshOutcomes ==
    { [status |-> "completed", result_message |-> Some("Refresh completed"), error_message |-> NULL],
      [status |-> "failed", result_message |-> NULL, error_message |-> Some("Refresh failed")] }

Elapsed(row) == IF row.started_at = NULL THEN 0 ELSE now - row.started_at[1]

\* The executor's terminal transition of a test request: status, completed_at
\* and the outcome fields, only where the row is still running.
Executor_finish_test_update(rows, request_id, outcome) ==
    IF request_id \in DOMAIN rows /\ rows[request_id].status = "running"
    THEN [rows |-> [rows EXCEPT ![request_id] =
                        [@ EXCEPT !.status = outcome.status,
                                  !.completed_at = Some(now),
                                  !.result_summary = outcome.result_summary,
                                  !.error_message = outcome.error_message,
                                  !.total_tests = outcome.total_tests,
                                  !.passed_tests = outcome.passed_tests,
                                  !.failed_tests = outcome.failed_tests,
                                  !.skipped_tests = outcome.skipped_tests,
                                  !.duration_seconds = Elapsed(rows[request_id])]],
          rowcount |-> 1]
    ELSE [rows |-> rows, rowcount |-> 0]

\* The same for an asset refresh request.
Executor_finish_refresh_update(rows, request_id, outcome) ==
    IF request_id \in DOMAIN rows /\ rows[request_id].status = "running"
    THEN [rows |-> [rows EXCEPT ![request_id] =
                        [@ EXCEPT !.status = outcome.status,
                                  !.completed_at = Some(now),
                                  !.result_message = outcome.result_message,
                                  !.error_message = outcome.error_message,
                                  !.duration_seconds = Elapsed(rows[request_id])]],
          rowcount |-> 1]
    ELSE [rows |-> rows, rowcount |-> 0]

Executor_claim_test(request_id) ==
    LET upd == Executor_claim_update(test_requests, request_id) IN
    /\ test_requests' = upd.rows
    /\ ret' = [op |-> "executor_claim", table |-> "test", id |-> request_id,
               rowcount |-> upd.rowcount]
    /\ UNCHANGED <<test_seq, asset_refresh_requests, refresh_seq, execution_log,
                   terminal_writes, issued, now>>

Executor_claim_refresh(request_id) ==
    LET upd == Executor_claim_update(asset_refresh_requests, request_id) IN
    /\ asset_refresh_requests' = upd.rows
    /\ ret' = [op |-> "executor_claim", table |-> "refresh", id |-> request_id,
               rowcount |-> upd.rowcount]
    /\ UNCHANGED <<test_requests, test_seq, refresh_seq, execution_log,
                   terminal_writes, issued, now>>

Executor_finish_test(request_id, outcome) ==
    LET upd == Executor_finish_test_update(test_requests, request_id, outcome) IN
    /\ test_requests' = upd.rows
    /\ terminal_writes' = CountWrite("test", request_id, "executor", upd.rowcount)
    /\ ret' = [op |-> "executor_finish", table |-> "test", id |-> request_id,
               rowcount |-> upd.rowcount]
    /\ UNCHANGED <<test_seq, asset_refresh_requests, refresh_seq, execution_log, issued, now>>

Executor_finish_refresh(request_id, outcome) ==
    LET upd == Executor_finish_refresh_update(asset_refresh_requests, request_id, outcome) IN
    /\ asset_refresh_requests' = upd.rows
    /\ terminal_writes' = CountWrite("refresh", request_id, "executor", upd.rowcount)
    /\ ret' = [op |-> "executor_finish", table |-> "refresh", id |-> request_id,
               rowcount |-> upd.rowcount]
    /\ UNCHANGED <<test_requests, test_seq, refresh_seq, execution_log, issued, now>>

\* ------------------------------------------------------------------ pending list

\* Variant: WHERE status IN ('pending', 'running').
Pending_or_running(rows) == {rows[i] : i \in {j \in DOMAIN rows : rows[j].status \in Cancellable}}

\* WHERE status = 'pending'
Pending(rows) == {rows[i] : i \in {j \in DOMAIN rows : rows[j].status = "pending"}}

\* Variant: ORDER BY priority ASC, created_at ASC.
Precedes_priority_ascending(a, b) ==
    \/ a.priority < b.priority
    \/ a.priority = b.priority /\ a.created_at < b.created_at

\* ORDER BY priority DESC, created_at ASC: row a sorts before row b.
Precedes(a, b) ==
    \/ a.priority > b.priority
    \/ a.priority = b.priority /\ a.created_at < b.created_at

\* The orders in which the scan can hand the selected rows to the sorter;
\* SQL leaves the order of rows with equal ORDER BY keys undefined.
ScanOrders(S) ==
    {scan \in [1 .. Cardinality(S) -> S] :
        \A i, j \in 1 .. Cardinality(S) : i # j => scan[i] # scan[j]}

\* The sorter: a row goes behind every row it does not sort before.
InsertSorted(sorted, r) ==
    LET k == Cardinality({i \in 1 .. Len(sorted) : ~Precedes(r, sorted[i])})
    IN  SubSeq(sorted, 1, k) \o <<r>> \o SubSeq(sorted, k + 1, Len(sorted))

RECURSIVE OrderBy(_)
OrderBy(scan) ==
    IF Len(scan) = 0 THEN <<>>
    ELSE InsertSorted(OrderBy(SubSeq(scan, 1, Len(scan) - 1)), scan[Len(scan)])

\* dict(row) with the paths column parsed when it holds text.
ParsePaths(row) ==
    [row EXCEPT !.paths = IF @ # NULL THEN Some(json_loads(@[1])) ELSE NULL]

Test_get_pending_requests ==
    /\ \E scan \in ScanOrders(Pending(test_requests)) :
           ret' = [op |-> "get_pending_requests", table |-> "test",
                   result |-> OrderBy(scan)]
    /\ UNCHANGED <<test_requests, test_seq, asset_refresh_requests, refresh_seq,
                   execution_log, terminal_writes, issued, now>>

Refresh_get_pending_requests ==
    /\ \E scan \in ScanOrders(Pending(asset_refresh_requests)) :
           ret' = [op |-> "get_pending_requests", table |-> "refresh",
                   result |-> [i \in 1 .. Len(scan) |-> ParsePaths(OrderBy(scan)[i])]]
    /\ UNCHANGED <<test_requests, test_seq, asset_refresh_requests, refresh_seq,
                   execution_log, terminal_writes, issued, now>>

\* ------------------------------------------------------------------ external deletion

\* DELETE FROM <request table> WHERE id = ?, issued by a party outside the
\* coordinators over a connection with SQLite's default settings.
DeleteRow(rows, request_id) == [i \in DOMAIN rows \ {request_id} |-> rows[i]]

External_delete_test(request_id) ==
    /\ request_id \in DOMAIN test_requests
    /\ test_requests' = DeleteRow(test_requests, request_id)
    /\ ret' = [op |-> "external_delete", table |-> "test", id |-> request_id]
    /\ UNCHANGED <<test_seq, asset_refresh_requests, refresh_seq, execution_log,
                   terminal_writes, issued, now>>

External_delete_refresh(request_id) ==
    /\ request_id \in DOMAIN asset_refresh_requests
    /\ asset_refresh_requests' = DeleteRow(asset_refresh_requests, request_id)
    /\ ret' = [op |-> "external_delete", table |-> "refresh", id |-> request_id]
    /\ UNCHANGED <<test_requests, test_seq, refresh_seq, execution_log,
                   terminal_writes, issued, now>>

\* ------------------------------------------------------------------ point lookup

\* Variant: a reader that keeps serving the row as it was inserted.
Test_select_by_id_as_inserted(rows, request_id) ==
    IF request_id \in DOMAIN rows
    THEN Some([rows[request_id] EXCEPT !.status = "pending", !.started_at = NULL,
                                       !.completed_at = NULL])
    ELSE NULL

\* SELECT * FROM test_requests WHERE id = ?, then dict(row) of the row
\* fetched, or None when there is none.
Test_select_by_id(rows, request_id) ==
    IF request_id \in DOMAIN rows THEN Some(rows[request_id]) ELSE NULL

\* The same on asset_refresh_requests, with the paths column parsed.
Refresh_select_by_id(rows, request_id) ==
    IF request_id \in DOMAIN rows THEN Some(ParsePaths(rows[request_id])) ELSE NULL

Test_get_request_status(request_id) ==
    /\ ret' = [op |-> "get_request_status", table |-> "test", id |-> request_id,
               row |-> Test_select_by_id(test_requests, request_id), raised |-> "none"]
    /\ UNCHANGED <<test_requests, test_seq, asset_refresh_requests, refresh_seq,
                   execution_log, terminal_writes, issued, now>>

Refresh_get_request_status(request_id) ==
    /\ ret' = [op |-> "get_request_status", table |-> "refresh", id |-> request_id,
               row |-> Refresh_select_by_id(asset_refresh_requests, request_id),
               raised |-> "none"]
    /\ UNCHANGED <<test_requests, test_seq, asset_refresh_requests, refresh_seq,
                   execution_log, terminal_writes, issued, now>>

\* One statement of the controller, the executor or an outside deleter.
Operation ==
    \/ \E args \in TestSubmits : submit_test_request(args.payload, args.priority)
    \/ \E args \in RefreshSubmits : submit_refresh_request(args.payload, args.priority)
    \/ \E request_id \in RequestIds : Test_cancel_request(request_id)
    \/ \E request_id \in RequestIds : Refresh_cancel_request(request_id)
    \/ \E request_id \in RequestIds : Executor_claim_test(request_id)
    \/ \E request_id \in RequestIds : Executor_claim_refresh(request_id)
    \/ \E request_id \in RequestIds, outcome \in TestOutcomes :
           Executor_finish_test(request_id, outcome)
    \/ \E request_id \in RequestIds, outcome \in RefreshOutcomes :
           Executor_finish_refresh(request_id, outcome)
    \/ Test_get_pending_requests
    \/ Refresh_get_pending_requests
    \/ \E request_id \in RequestIds : External_delete_test(request_id)
    \/ \E request_id \in RequestIds : External_delete_refresh(request_id)
    \/ \E request_id \in RequestIds : Test_get_request_status(request_id)
    \/ \E request_id \in RequestIds : Refresh_get_request_status(request_id)

Next ==
    /\ \/ Tick
       \/ /\ ops < MaxOps
          /\ ops' = ops + 1
          /\ Operation
          /\ UNCHANGED wait
    /\ UNCHANGED statusVars
    /\ UNCHANGED <<tables, logVars, test_results, txn>>

Spec == Init /\ [][Next]_vars

\* ------------------------------------------------------------------ completion waiter

\* The timeout and poll_interval arguments of wait_for_completion, in units
\* of the clock.
WaitTimeouts == {0, 1, 2}

PollIntervals == {1, 2}

\* The refresh coordinator's fixed time.sleep(0.5): one unit of the clock.
RefreshPollInterval == 1

\* start_time = time.time(); last_status = None
NewWait(table, request_id, timeout, poll_interval) ==
    [ pc |-> "loop",
      table |-> table,
      id |-> request_id,
      timeout |-> timeout,
      poll_interval |-> poll_interval,
      start_time |-> now,
      last_status |-> NULL,
      wake_at |-> now,
      checks |-> 0,
      printed |-> <<>>,
      result |-> NULL,
      raised |-> "none",
      end_time |-> now,
      open |-> 0 ]

\* Variant: the budget is counted from the latest wake-up instead of the start
\* of the call.
Wait_within_budget_from_last_wake(w) == now - w.wake_at < w.timeout

\* Variant: while time.time() - start_time <= timeout.
Wait_within_budget_inclusive(w) == now - w.start_time <= w.timeout

\* while time.time() - start_time < timeout
Wait_within_budget(w) == now - w.start_time < w.timeout

\* Variant: only completed and failed end the wait.
Wait_is_final_without_cancelled(status) == status \in {"completed", "failed"}

\* Variant: any status other than pending ends the wait.
Wait_is_final_not_pending(status) == status # "pending"

\* status in ['completed', 'failed', 'cancelled']
Wait_is_final(status) == status \in {"completed", "failed", "cancelled"}

\* Variant: a status line for every status read.
Wait_note_status_every_poll(w, status) ==
    [w EXCEPT !.printed = Append(@, status), !.last_status = Some(status), !.checks = @ + 1]

\* The status line printed when the status read differs from the last one.
Wait_note_status(w, status) ==
    IF Some(status) # w.last_status
    THEN [w EXCEPT !.printed = Append(@, status), !.last_status = Some(status),
                   !.checks = @ + 1]
    ELSE [w EXCEPT !.checks = @ + 1]

\* The call ends, returning result or raising.
Wait_return(w, result, raised) ==
    [w EXCEPT !.pc = "done", !.result = result, !.raised = raised, !.end_time = now]

\* Variant: a missing row is taken for a row that is not final yet.
Refresh_wait_not_found_keeps_polling(w) ==
    [w EXCEPT !.pc = "sleeping", !.wake_at = now + w.poll_interval, !.checks = @ + 1]

\* if not status_data: return "not_found"
Refresh_wait_not_found(w) ==
    Wait_return([w EXCEPT !.checks = @ + 1], Some("not_found"), "none")

\* if not status: raise ValueError
Test_wait_not_found(w) ==
    Wait_return([w EXCEPT !.checks = @ + 1], NULL, "ValueError")

\* One pass of TestCoordinator.wait_for_completion's loop, from the loop
\* condition to the sleep, or the raise after the loop.
Test_wait_iteration(w, rows) ==
    IF ~Wait_within_budget(w)
    THEN Wait_return(w, NULL, "TimeoutError")
    ELSE LET status == Test_select_by_id(rows, w.id) IN
         IF status = NULL
         THEN Test_wait_not_found(w)
         ELSE LET noted == Wait_note_status(w, status[1].status) IN
              IF Wait_is_final(status[1].status)
              THEN Wait_return(noted, status, "none")
              ELSE [noted EXCEPT !.pc = "sleeping", !.wake_at = now + w.poll_interval]

\* One pass of AssetRefreshCoordinator.wait_for_completion's loop, or the
\* return after the loop.
Refresh_wait_iteration(w, rows) ==
    IF ~Wait_within_budget(w)
    THEN Wait_return(w, Some("timeout"), "none")
    ELSE LET status_data == Refresh_select_by_id(rows, w.id) IN
         IF status_data = NULL
         THEN Refresh_wait_not_found(w)
         ELSE LET current_status == status_data[1].status
                  noted == Wait_note_status(w, current_status)
              IN  IF Wait_is_final(current_status)
                  THEN Wait_return(noted, Some(current_status), "none")
                  ELSE [noted EXCEPT !.pc = "sleeping", !.wake_at = now + w.poll_interval]

\* Variant: a wait that runs out of time cancels the item it waited for.
Wait_store_after_cancels_on_timeout(rows, w) ==
    IF w.pc = "loop" /\ ~Wait_within_budget(w)
    THEN Refresh_cancel_update(rows, w.id).rows
    ELSE rows

\* The request table after a pass of the loop: the loop only reads, it holds
\* no INSERT, UPDATE or DELETE.
Wait_store_after(rows, w) == rows

\* sqlite3.connect: one more connection opened and not yet closed by the
\* call.
Conn_open(open) == open + 1

\* conn.close()
Conn_close(open) == open - 1

\* The call is made.
Wait_start(table, request_id, timeout, poll_interval) ==
    /\ wait.pc = "idle"
    /\ table = "refresh" => poll_interval = RefreshPollInterval
    /\ now + timeout + poll_interval <= MaxWall
    /\ wait' = NewWait(table, request_id, timeout, poll_interval)
    /\ UNCHANGED <<test_requests, test_seq, asset_refresh_requests, refresh_seq,
                   execution_log, terminal_writes, issued, now, ret, ops>>

\* The loop condition and, within the budget, one status check.
Wait_check ==
    /\ wait.pc = "loop"
    /\ LET w == [wait EXCEPT !.open = IF Wait_within_budget(wait)
                                      THEN Conn_close(Conn_open(@)) ELSE @]
       IN  wait' = IF wait.table = "test" THEN Test_wait_iteration(w, test_requests)
                   ELSE Refresh_wait_iteration(w, asset_refresh_requests)
    /\ test_requests' = IF wait.table = "test" THEN Wait_store_after(test_requests, wait)
                        ELSE test_requests
    /\ asset_refresh_requests' =
           IF wait.table = "refresh" THEN Wait_store_after(asset_refresh_requests, wait)
           ELSE asset_refresh_requests
    /\ UNCHANGED <<test_seq, refresh_seq, execution_log, terminal_writes, issued, now,
                   ret, ops>>

\* time.sleep(poll_interval) returns.
Wait_wake ==
    /\ wait.pc = "sleeping"
    /\ now >= wait.wake_at
    /\ wait' = [wait EXCEPT !.pc = "loop"]
    /\ UNCHANGED <<test_requests, test_seq, asset_refresh_requests, refresh_seq,
                   execution_log, terminal_writes, issued, now, ret, ops>>

\* Time passes: while the caller sleeps, up to the end of its sleep; a pass
\* of the loop itself takes no time.
Wait_tick ==
    /\ now < MaxWall
    /\ wait.pc # "loop"
    /\ wait.pc = "sleeping" => now < wait.wake_at
    /\ now' = now + 1
    /\ UNCHANGED <<test_requests, test_seq, asset_refresh_requests, refresh_seq,
                   execution_log, terminal_writes, issued, ret, ops, wait>>

\* The statements of the other parties on the test ledger while a caller
\* waits.
TestLedgerOperation ==
    \/ \E args \in TestSubmits : submit_test_request(args.payload, args.priority)
    \/ \E request_id \in RequestIds : Test_cancel_request(request_id)
    \/ \E request_id \in RequestIds : Executor_claim_test(request_id)
    \/ \E request_id \in RequestIds, outcome \in TestOutcomes :
           Executor_finish_test(request_id, outcome)
    \/ \E request_id \in RequestIds : External_delete_test(request_id)

\* The same on the refresh ledger.
RefreshLedgerOperation ==
    \/ \E args \in RefreshSubmits : submit_refresh_request(args.payload, args.priority)
    \/ \E request_id \in RequestIds : Refresh_cancel_request(request_id)
    \/ \E request_id \in RequestIds : Executor_claim_refresh(request_id)
    \/ \E request_id \in RequestIds, outcome \in RefreshOutcomes :
           Executor_finish_refresh(request_id, outcome)
    \/ \E request_id \in RequestIds : External_delete_refresh(request_id)

\* A behaviour follows one wait_for_completion call on one of the two
\* ledgers, which share no rows, and at most MaxWaitOps statements of the
\* other parties on that ledger, before, during and after the call.
NextWait ==
    /\ \/ Wait_tick
       \/ /\ ops < MaxWaitOps
          /\ ops' = ops + 1
          /\ \/ refresh_seq = 0 /\ wait.table # "refresh" /\ TestLedgerOperation
             \/ test_seq = 0 /\ wait.table # "test" /\ RefreshLedgerOperation
          /\ UNCHANGED wait
       \/ \E table \in {"test", "refresh"}, request_id \in RequestIds,
             timeout \in WaitTimeouts, poll_interval \in PollIntervals :
              /\ table = "test" => refresh_seq = 0
              /\ table = "refresh" => test_seq = 0
              /\ Wait_start(table, request_id, timeout, poll_interval)
       \/ Wait_check
       \/ Wait_wake
    /\ UNCHANGED statusVars
    /\ UNCHANGED <<tables, logVars, test_results, txn>>

\* The waiting caller keeps running, and time keeps passing.
SpecWait ==
    /\ Init
    /\ [][NextWait]_vars
    /\ WF_vars((Wait_check \/ Wait_wake) /\ UNCHANGED <<statusVars, tables, logVars, test_results, txn>>)
    /\ WF_vars(Wait_tick /\ UNCHANGED <<statusVars, tables, logVars, test_results, txn>>)

\* ------------------------------------------------------------------ refresh paths

\* Refresh requests that differ in their paths are submitted, read back and
\* listed.
NextPaths ==
    /\ \/ \E args \in PathSubmits : submit_refresh_request(args.payload, args.priority)
       \/ \E request_id \in RequestIds : Refresh_get_request_status(request_id)
       \/ Refresh_get_pending_requests
       \/ \E request_id \in RequestIds : Refresh_cancel_request(request_id)
    /\ UNCHANGED <<ops, wait>>
    /\ UNCHANGED statusVars
    /\ UNCHANGED <<tables, logVars, test_results, txn>>

SpecPaths == Init /\ [][NextPaths]_vars

\* ------------------------------------------------------------------ status registry

\* The component names the CHECK constraint of system_status admits.
StatusComponents == {"Unity", "Python", "Database"}

\* Arguments of update_system_heartbeat: the default, another admitted name
\* and a name outside the CHECK constraint.
HeartbeatComponents == {"Python", "Unity", "Executor"}

\* Whether the schema puts a UNIQUE or PRIMARY KEY constraint on
\* system_status.component (the primary key is id; there is no index but
\* the plain idx_system_status_component, if any).
ComponentIsUnique == FALSE

\* The parameters update_system_heartbeat hands to cursor.execute for the
\* statement's one placeholder: none.
HeartbeatParameters == <<>>

\* INSERT INTO system_status (component, status, message)
\* VALUES ('Database', 'online', 'Database initialized successfully')
InsertInitialStatus(rows, seq) ==
    [rows |-> Append(rows, InitialStatusRow(seq + 1, now)), seq |-> seq + 1]

\* The statement of create_database that fails: none (0), the CREATE TABLE
\* of the k-th expected table, or a CREATE INDEX after the six of them.
DDLFailures == 0 .. Len(ExpectedTables) + 1

\* What a store file holds.
CurrentStore ==
    [ tables |-> tables,
      system_status |-> system_status, status_seq |-> status_seq,
      test_requests |-> test_requests, test_seq |-> test_seq,
      asset_refresh_requests |-> asset_refresh_requests, refresh_seq |-> refresh_seq,
      execution_log |-> execution_log,
      test_results |-> test_results,
      console_logs |-> console_logs, log_seq |-> log_seq ]

\* A store file sqlite3.connect has just made: no tables, no rows.
EmptyStore ==
    [ tables |-> {},
      system_status |-> <<>>, status_seq |-> 0,
      test_requests |-> <<>>, test_seq |-> 0,
      asset_refresh_requests |-> <<>>, refresh_seq |-> 0,
      execution_log |-> <<>>,
      test_results |-> <<>>,
      console_logs |-> <<>>, log_seq |-> 0 ]

\* The INSERT of the initial row runs on every call.
Create_insert_status(store) == InsertInitialStatus(store.system_status, store.status_seq)

\* except sqlite3.Error as e: print, conn.rollback(), return False.
Create_on_error(error) == [result |-> FALSE, raised |-> "none"]

\* The body of create_database on a store: each CREATE TABLE IF NOT EXISTS
\* takes effect as it runs (the sqlite3 module opens no transaction for
\* DDL), so the tables before a failing statement stay; the INSERT of the
\* initial status row and the commit are reached when no statement failed.
Create_statements(store, fail_at) ==
    IF fail_at = 0
    THEN LET ins == Create_insert_status(store) IN
         [store EXCEPT !.tables = WithSequence(@ \cup Range(ExpectedTables)),
                       !.system_status = ins.rows,
                       !.status_seq = ins.seq]
    ELSE [store EXCEPT !.tables =
             WithSequence(@ \cup {ExpectedTables[k] : k \in 1 .. fail_at - 1})]

\* create_database: sqlite3.connect makes the file when it is absent; then
\* the statements, and True, or the handler's False.
create_database(fail_at) ==
    /\ Len(system_status) < MaxStatusRows
    /\ LET made == Create_statements(CurrentStore, fail_at)
           out == IF fail_at = 0 THEN [result |-> TRUE, raised |-> "none"]
                  ELSE Create_on_error("OperationalError")
       IN  /\ store_exists' = TRUE
           /\ tables' = made.tables
           /\ system_status' = made.system_status
           /\ status_seq' = made.status_seq
           /\ ret' = [op |-> "create_database",
                      error |-> IF fail_at = 0 THEN "none" ELSE "OperationalError",
                      result |-> out.result, raised |-> out.raised]
    /\ UNCHANGED <<ledgerVars, logVars, now, ops, wait>>

\* Variant: the file is left in place.
Reset_remove_skipped(store) == store

\* os.remove(db_path) when the file exists: the next connect finds no file
\* and makes an empty one.
Reset_remove(store) == EmptyStore

\* reset_database: os.remove of the database file, then create_database on
\* the new, empty one, whose ids start again at 1.  The result notes whether
\* a file was removed and how many rows it held.
reset_database(fail_at) ==
    /\ LET removed == IF store_exists THEN Reset_remove(CurrentStore) ELSE CurrentStore
           made == Create_statements(removed, fail_at)
           out == IF fail_at = 0 THEN [result |-> TRUE, raised |-> "none"]
                  ELSE Create_on_error("OperationalError")
       IN  /\ Len(made.system_status) <= MaxStatusRows
           /\ store_exists' = TRUE
           /\ tables' = made.tables
           /\ system_status' = made.system_status
           /\ status_seq' = made.status_seq
           /\ test_requests' = made.test_requests
           /\ test_seq' = made.test_seq
           /\ asset_refresh_requests' = made.asset_refresh_requests
           /\ refresh_seq' = made.refresh_seq
           /\ execution_log' = made.execution_log
           /\ test_results' = made.test_results
           /\ console_logs' = made.console_logs
           /\ log_seq' = made.log_seq
           /\ ret' = [op |-> "reset_database",
                      existed |-> store_exists,
                      dropped |-> Len(system_status) + Cardinality(DOMAIN test_requests)
                                  + Len(execution_log) + Len(console_logs),
                      error |-> IF fail_at = 0 THEN "none" ELSE "OperationalError",
                      result |-> out.result, raised |-> out.raised]
    /\ terminal_writes' = [t \in {"test", "refresh"} |-> [i \in RequestIds |-> NoWrites]]
    /\ issued' = [t \in {"test", "refresh"} |-> {}]
    /\ UNCHANGED <<monitor, prune, txn, now, ops, wait>>

\* Variant: the table set has to be exactly the expected one.
Verify_tables_exactly(actual) ==
    IF Range(ExpectedTables) = actual
    THEN [result |-> TRUE, missing |-> NULL]
    ELSE [result |-> FALSE, missing |-> Some(Range(ExpectedTables) \ actual)]

\* expected_tables.issubset(actual_tables), and the difference that is
\* printed when it is not.
Verify_tables(actual) ==
    IF Range(ExpectedTables) \subseteq actual
    THEN [result |-> TRUE, missing |-> NULL]
    ELSE [result |-> FALSE, missing |-> Some(Range(ExpectedTables) \ actual)]

\* verify_database: False at once when the file does not exist, else the
\* names in sqlite_master against the expected ones; no statement writes.
verify_database ==
    /\ LET out == IF store_exists THEN Verify_tables(tables)
                  ELSE [result |-> FALSE, missing |-> NULL]
       IN  ret' = [op |-> "verify_database", found |-> store_exists,
                   result |-> out.result, missing |-> out.missing]
    /\ UNCHANGED <<ledgerVars, statusVars, tables, logVars, now, ops, wait>>

\* TestCoordinator(): the file has to exist.
Test_construct ==
    /\ ret' = [op |-> "TestCoordinator",
               raised |-> IF store_exists THEN "none" ELSE "FileNotFoundError",
               message |-> IF store_exists THEN NULL
                           ELSE Some("Database not found. Run db_initializer.py first.")]
    /\ UNCHANGED <<ledgerVars, statusVars, tables, logVars, now, ops, wait>>

\* AssetRefreshCoordinator(): connect (which makes the file), then
\* sqlite_master has to list asset_refresh_requests.
Refresh_construct ==
    /\ store_exists' = TRUE
    /\ LET found == "asset_refresh_requests" \in tables IN
       ret' = [op |-> "AssetRefreshCoordinator",
               raised |-> IF found THEN "none" ELSE "RuntimeError",
               message |-> IF found THEN NULL
                           ELSE Some("asset_refresh_requests table not found. Run db_initializer.py first.")]
    /\ UNCHANGED <<ledgerVars, system_status, status_seq, tables, logVars, now, ops, wait>>

\* The upsert's effect on rows that carry a unique component: the row of that
\* component updated in place, or a new row.
Heartbeat_upsert_rows(rows, seq, component) ==
    IF \E i \in DOMAIN rows : rows[i].component = component
    THEN [rows |-> [i \in DOMAIN rows |->
                       IF rows[i].component = component
                       THEN [rows[i] EXCEPT !.status = "online",
                                            !.last_heartbeat = Some(now),
                                            !.message = Some("Active")]
                       ELSE rows[i]],
          seq |-> seq, error |-> "none"]
    ELSE [rows |-> Append(rows, [id |-> seq + 1, component |-> component,
                                 status |-> "online", last_heartbeat |-> Some(now),
                                 message |-> Some("Active"), metadata |-> NULL]),
          seq |-> seq + 1, error |-> "none"]

\* cursor.execute of INSERT INTO system_status (component, status,
\* last_heartbeat, message) VALUES (?, 'online', CURRENT_TIMESTAMP, 'Active')
\* ON CONFLICT(component) DO UPDATE SET ...: SQLite prepares the statement
\* (the conflict target must name a UNIQUE or PRIMARY KEY column), then the
\* parameters are bound to its placeholder, then the row is checked and
\* written.
Heartbeat_execute(rows, seq, component) ==
    IF ~ComponentIsUnique
    THEN [rows |-> rows, seq |-> seq, error |-> "OperationalError"]
    ELSE IF Len(HeartbeatParameters) # 1
    THEN [rows |-> rows, seq |-> seq, error |-> "ProgrammingError"]
    ELSE IF component \notin StatusComponents
    THEN [rows |-> rows, seq |-> seq, error |-> "IntegrityError"]
    ELSE Heartbeat_upsert_rows(rows, seq, component)

\* Variant: the error of the statement reaches the caller.
Heartbeat_on_error_raises(rows, seq, error) ==
    [rows |-> rows, seq |-> seq, raised |-> error, closed |-> TRUE]

\* except sqlite3.Error: pass, then finally: conn.close(); nothing was
\* committed.
Heartbeat_on_error(rows, seq, error) ==
    [rows |-> rows, seq |-> seq, raised |-> "none", closed |-> TRUE]

\* update_system_heartbeat of a TestCoordinator, which is constructed only
\* on a store that exists: the statement, then the commit and the close, or
\* the handler.
update_system_heartbeat(component) ==
    /\ store_exists
    /\ LET stmt == Heartbeat_execute(system_status, status_seq, component)
           out == IF stmt.error = "none"
                  THEN [rows |-> stmt.rows, seq |-> stmt.seq, raised |-> "none",
                        closed |-> TRUE]
                  ELSE Heartbeat_on_error(system_status, status_seq, stmt.error)
       IN  /\ Len(out.rows) <= MaxStatusRows
           /\ system_status' = out.rows
           /\ status_seq' = out.seq
           /\ ret' = [op |-> "update_system_heartbeat", component |-> component,
                      error |-> stmt.error, raised |-> out.raised, closed |-> out.closed]
    /\ UNCHANGED <<store_exists, tables, ledgerVars, logVars, now, ops, wait>>

\* No store yet: db_initializer has not run.
InitStatus ==
    /\ store_exists = FALSE
    /\ tables = {}
    /\ console_logs = <<>>
    /\ log_seq = 0
    /\ monitor = NoMonitor
    /\ prune = NoPrune
    /\ test_results = <<>>
    /\ txn = NoTxn
    /\ system_status = <<>>
    /\ status_seq = 0
    /\ test_requests = <<>>
    /\ test_seq = 0
    /\ asset_refresh_requests = <<>>
    /\ refresh_seq = 0
    /\ execution_log = <<>>
    /\ terminal_writes = [t \in {"test", "refresh"} |-> [i \in RequestIds |-> NoWrites]]
    /\ issued = [t \in {"test", "refresh"} |-> {}]
    /\ now = 0
    /\ ret = [op |-> "none"]
    /\ ops = 0
    /\ wait = NoWait

\* Initialisation, reset and heartbeats, from any process in any order, and
\* the submits that fill the store a reset empties.
NextStatus ==
    \/ Tick /\ UNCHANGED <<statusVars, tables, logVars, test_results, txn>>
    \/ /\ store_exists
       /\ \E args \in TestSubmits : submit_test_request(args.payload, args.priority)
       /\ UNCHANGED <<ops, wait>>
       /\ UNCHANGED <<statusVars, tables, logVars, test_results, txn>>
    \/ \E fail_at \in DDLFailures : create_database(fail_at)
    \/ \E fail_at \in DDLFailures : reset_database(fail_at)
    \/ \E component \in HeartbeatComponents : update_system_heartbeat(component)

SpecStatus == InitStatus /\ [][NextStatus]_vars

\* ------------------------------------------------------------------ console log

\* The session_id and log_level of the entries the executor appends.
LogSessions == {"s1", "s2"}

LogLevels == {"Info", "Error"}

\* A timestamp text as its fields: the date, the separator between date and
\* time, and the time of day.  Date and time of day are zero-padded digits
\* of fixed width, so they compare as the numbers they spell.

\* CURRENT_TIMESTAMP, the column default: 'YYYY-MM-DD HH:MM:SS'.
CURRENT_TIMESTAMP(t) == <<t \div TicksPerDay, " ", t % TicksPerDay>>

\* datetime.isoformat(): 'YYYY-MM-DDTHH:MM:SS.ffffff'.
isoformat(t) == <<t \div TicksPerDay, "T", t % TicksPerDay>>

\* datetime.fromisoformat(text.replace(' ', 'T')): the instant a timestamp
\* text of either form names.
fromisoformat(text) == text[1] * TicksPerDay + text[3]

\* The code point of a separator.
ord(c) == IF c = " " THEN 32 ELSE 84

\* a < b on two TEXT values in SQLite: byte by byte from the left.
TextLess(a, b) ==
    \/ a[1] < b[1]
    \/ /\ a[1] = b[1]
       /\ \/ ord(a[2]) < ord(b[2])
          \/ a[2] = b[2] /\ a[3] < b[3]

\* Variant: the column has no CHECK constraint.
Log_check_any_level(log_level) == TRUE

\* The CHECK constraint of console_logs on log_level.
Log_check(log_level) == log_level \in {"Info", "Warning", "Error", "Exception", "Assert"}

\* Variant: the connection runs PRAGMA foreign_keys = ON.
Foreign_keys_on == TRUE

\* Whether a connection enforces the FOREIGN KEY clauses of the schema: the
\* connections are opened with journal_mode = WAL and nothing else, which
\* leaves SQLite's foreign_keys setting at its default, off.
Foreign_keys == FALSE

\* The error the INSERT of a console log entry ends in, if any.  REFERENCES
\* test_requests(id), where enforced, needs the row a non-NULL request_id
\* names.
Log_insert_error(log_level, request_id) ==
    IF ~Log_check(log_level) THEN "IntegrityError"
    ELSE IF Foreign_keys /\ request_id # NULL /\ request_id[1] \notin DOMAIN test_requests
         THEN "IntegrityError"
    ELSE "none"

\* The executor appends an entry for a request, or for none; id by
\* AUTOINCREMENT, timestamp by the column default.
Log_insert(session_id, log_level, request_id) ==
    /\ "console_logs" \in tables
    /\ log_seq < MaxLogs
    /\ LET error == Log_insert_error(log_level, request_id) IN
       IF error # "none"
       THEN /\ ret' = [op |-> "append_log", raised |-> error]
            /\ UNCHANGED <<console_logs, log_seq, prune>>
       ELSE /\ console_logs' = Append(console_logs,
                   [ id |-> log_seq + 1, session_id |-> session_id, log_level |-> log_level,
                     timestamp |-> CURRENT_TIMESTAMP(now), request_id |-> request_id ])
            /\ log_seq' = log_seq + 1
            /\ prune' = IF prune.pc = "idle" THEN prune ELSE [prune EXCEPT !.appended = @ + 1]
            /\ ret' = [op |-> "append_log", id |-> log_seq + 1]
    /\ UNCHANGED <<ledgerVars, statusVars, tables, monitor, now, ops, wait>>

\* An entry that belongs to no request.
Log_append(session_id, log_level) == Log_insert(session_id, log_level, NULL)

\* Time passes on the clock the log's timestamps and cutoffs are read from.
Log_tick ==
    /\ now < MaxLogClock
    /\ now' = now + 1
    /\ UNCHANGED <<ledgerVars, statusVars, tables, logVars, ret, ops, wait>>

\* The filters a reader adds to its WHERE clause: each only when its
\* argument is truthy.
Log_matches(session_id, log_level, row) ==
    /\ session_id # NULL => row.session_id = session_id[1]
    /\ log_level # NULL => row.log_level = log_level[1]

\* Variant: WHERE id >= ?.
Monitor_select_from_last_id(rows, m) ==
    SelectSeq(rows, LAMBDA row : row.id >= m.last_id
                                 /\ Log_matches(m.session_id, m.log_level, row))

\* SELECT * FROM console_logs WHERE id > ? [AND session_id = ?] [AND
\* log_level = ?] ORDER BY id ASC, on the table in id order.
Monitor_select(rows, m) ==
    SelectSeq(rows, LAMBDA row : row.id > m.last_id
                                 /\ Log_matches(m.session_id, m.log_level, row))

\* monitor_logs is called: last_id = 0, and the loop begins.
Monitor_start(session_id, log_level) ==
    /\ monitor.pc = "idle"
    /\ monitor' = [NoMonitor EXCEPT !.pc = "running", !.session_id = session_id,
                                    !.log_level = log_level]
    /\ UNCHANGED <<ledgerVars, statusVars, tables, console_logs, log_seq, prune,
                   now, ret, ops, wait>>

\* One pass of the loop: the connection, the SELECT, each row printed and
\* last_id set to its id, conn.close(), and the sleep begins.  Nothing
\* catches the error of a SELECT on a store without console_logs: it leaves
\* monitor_logs past the conn.close().
Monitor_read ==
    /\ monitor.pc = "running"
    /\ monitor.reads < MaxLogs
    /\ IF "console_logs" \notin tables
       THEN monitor' = [monitor EXCEPT !.pc = "raised", !.open = Conn_open(@)]
       ELSE LET new_logs == Monitor_select(console_logs, monitor) IN
            monitor' = [monitor EXCEPT
                !.new_logs = new_logs,
                !.printed = @ \o new_logs,
                !.reads = @ + 1,
                !.last_id = IF new_logs = <<>> THEN @ ELSE new_logs[Len(new_logs)].id,
                !.open = Conn_close(Conn_open(@))]
    /\ UNCHANGED <<ledgerVars, statusVars, tables, console_logs, log_seq, prune,
                   now, ret, ops, wait>>

\* The rows WHERE timestamp < ? selects, the parameter being
\* cutoff.isoformat().
Prune_selected(rows, cutoff) ==
    SelectSeq(rows, LAMBDA row : TextLess(row.timestamp, isoformat(cutoff)))

\* cutoff = datetime.now() - timedelta(days=days_old)
Prune_cutoff(call_time, days_old) == call_time - days_old * TicksPerDay

\* clear_old_logs up to the test of count: the cutoff, the SELECT COUNT(*),
\* and the return of 0 when nothing is selected.  The SELECT opens no
\* transaction.
Prune_count(days_old) ==
    /\ prune.pc \in {"idle", "done"}
    /\ LET count == Len(Prune_selected(console_logs, Prune_cutoff(now, days_old))) IN
       /\ prune' = [ pc |-> IF count > 0 THEN "counted" ELSE "done",
                     days_old |-> days_old, call_time |-> now, count |-> count,
                     deleted |-> {}, appended |-> 0 ]
       /\ ret' = IF count > 0 THEN [op |-> "clear_old_logs", returned |-> FALSE]
                 ELSE [op |-> "clear_old_logs", returned |-> TRUE, result |-> count]
    /\ UNCHANGED <<ledgerVars, statusVars, tables, console_logs, log_seq, monitor,
                   now, ops, wait>>

\* clear_old_logs from the DELETE on: the DELETE with the same cutoff, the
\* commit, and the return of the count taken before.
Prune_delete ==
    /\ prune.pc = "counted"
    /\ LET cutoff == Prune_cutoff(prune.call_time, prune.days_old)
           gone == Range(Prune_selected(console_logs, cutoff))
       IN  /\ console_logs' = SelectSeq(console_logs, LAMBDA row : row \notin gone)
           /\ prune' = [prune EXCEPT !.pc = "done", !.deleted = gone]
           /\ ret' = [op |-> "clear_old_logs", returned |-> TRUE, result |-> prune.count]
    /\ UNCHANGED <<ledgerVars, statusVars, tables, log_seq, monitor, now, ops, wait>>

\* The rows the WHERE clause of get_latest_logs selects: the since filter is
\* timestamp > ?, the parameter being cutoff.isoformat(), and is added when
\* minutes_ago is truthy.
Latest_selected(rows, session_id, log_level, minutes_ago) ==
    SelectSeq(rows, LAMBDA row :
        /\ Log_matches(session_id, log_level, row)
        /\ (minutes_ago # NULL /\ minutes_ago[1] # 0)
              => TextLess(isoformat(now - minutes_ago[1]), row.timestamp))

\* ORDER BY timestamp DESC: a row goes behind every row whose timestamp is
\* not less than its own.
Latest_insert_sorted(sorted, r) ==
    LET k == Cardinality({i \in 1 .. Len(sorted) : ~TextLess(sorted[i].timestamp, r.timestamp)})
    IN  SubSeq(sorted, 1, k) \o <<r>> \o SubSeq(sorted, k + 1, Len(sorted))

RECURSIVE Latest_order_by(_)
Latest_order_by(scan) ==
    IF Len(scan) = 0 THEN <<>>
    ELSE Latest_insert_sorted(Latest_order_by(SubSeq(scan, 1, Len(scan) - 1)), scan[Len(scan)])

\* LIMIT ?
Latest_limit(sorted, limit) ==
    SubSeq(sorted, 1, IF Len(sorted) < limit THEN Len(sorted) ELSE limit)

\* Arguments of get_latest_logs: limit, and each filter omitted or given.
LatestArgs ==
    [ limit : {1, 2}, log_level : {NULL, Some("Error")},
      session_id : {NULL, Some("s1")}, minutes_ago : {NULL, Some(1)} ]

get_latest_logs(args) ==
    /\ "console_logs" \in tables
    /\ \E scan \in ScanOrders(Range(Latest_selected(console_logs, args.session_id,
                                                    args.log_level, args.minutes_ago))) :
           ret' = [op |-> "get_latest_logs", args |-> args,
                   result |-> Latest_limit(Latest_order_by(scan), args.limit)]
    /\ UNCHANGED <<ledgerVars, statusVars, tables, logVars, now, ops, wait>>

\* ------------------------------------------------------------------ session summary

\* The session_id argument of get_session_summary: omitted, empty, a session
\* that can have entries, or one that never has.
SummaryArgs == {NULL, Some(""), Some("s1"), Some("s3")}

\* The entries the executor tries to append in these behaviours: of two
\* sessions, with levels the CHECK constraint admits and with Unity's
\* LogType.Log, which it does not.
SummaryAppends ==
    { [session_id |-> "s1", log_level |-> "Info"],
      [session_id |-> "s1", log_level |-> "Error"],
      [session_id |-> "s2", log_level |-> "Info"],
      [session_id |-> "s2", log_level |-> "Log"] }

\* Variant: the scan runs through the table in rowid order, so the entry
\* seen first is the session's oldest.
Summary_first_seen_in_rowid_order(rows, session_id) ==
    CHOOSE r \in Range(rows) :
        /\ r.session_id = session_id
        /\ \A q \in Range(rows) : q.session_id = session_id => r.id <= q.id

\* The entry of a session that the scan meets first.  The statement reads
\* session_id and timestamp only, both held by idx_console_logs_session
\* (session_id, timestamp DESC), so it runs through that index: within a
\* session the latest timestamp first, and equal timestamps in rowid order.
Summary_first_seen(rows, session_id) ==
    CHOOSE r \in Range(rows) :
        /\ r.session_id = session_id
        /\ \A q \in Range(rows) : q.session_id = session_id =>
               \/ TextLess(q.timestamp, r.timestamp)
               \/ q.timestamp = r.timestamp /\ r.id <= q.id

\* SELECT DISTINCT session_id: one row for each session, the first seen.
Summary_distinct(rows) ==
    {Summary_first_seen(rows, session_id) : session_id \in {r.session_id : r \in Range(rows)}}

\* ORDER BY timestamp DESC LIMIT 1 on those rows: the sessions that can come
\* out first, the order of equal timestamps being left open.
Summary_latest_sessions(rows) ==
    LET distinct == Summary_distinct(rows) IN
    {d.session_id : d \in {r \in distinct :
                               \A e \in distinct : ~TextLess(r.timestamp, e.timestamp)}}

\* The aggregate SELECT ... WHERE session_id = ? and the dict made of its
\* row; the duration text, derived from first_log and last_log, is left out.
\* COUNT(CASE WHEN log_level = ? THEN 1 END) counts the rows of a level;
\* MIN(timestamp) and MAX(timestamp) compare TEXT values and are NULL when
\* there is no row.
Summary_select(rows, session_id) ==
    LET mine == SelectSeq(rows, LAMBDA row : row.session_id = session_id)
        count(log_level) == Len(SelectSeq(mine, LAMBDA row : row.log_level = log_level))
        stamps == {r.timestamp : r \in Range(mine)}
    IN
    [ session_id |-> session_id,
      total_logs |-> Len(mine),
      info_count |-> count("Info"),
      warning_count |-> count("Warning"),
      error_count |-> count("Error"),
      exception_count |-> count("Exception"),
      assert_count |-> count("Assert"),
      first_log |-> IF mine = <<>> THEN NULL
                    ELSE Some(CHOOSE t \in stamps : \A u \in stamps : ~TextLess(u, t)),
      last_log |-> IF mine = <<>> THEN NULL
                   ELSE Some(CHOOSE t \in stamps : \A u \in stamps : ~TextLess(t, u)) ]

\* if not session_id: None and '' alike.
Summary_omitted(session_id) == session_id = NULL \/ session_id[1] = ""

\* What get_session_summary can return.
Summary_results(rows, session_id) ==
    IF Summary_omitted(session_id)
    THEN IF rows = <<>> THEN {[error |-> "No sessions found"]}
         ELSE {Summary_select(rows, latest) : latest \in Summary_latest_sessions(rows)}
    ELSE {Summary_select(rows, session_id[1])}

get_session_summary(session_id) ==
    /\ "console_logs" \in tables
    /\ \E result \in Summary_results(console_logs, session_id) :
           ret' = [op |-> "get_session_summary", session_id |-> session_id,
                   result |-> result]
    /\ UNCHANGED <<ledgerVars, statusVars, tables, logVars, now, ops, wait>>

\* ------------------------------------------------------------------ rows that reference a request

\* The executor records the result of one test of a request it ran; id by
\* AUTOINCREMENT, created_at by the column default.
Executor_record_result(request_id) ==
    /\ "test_results" \in tables
    /\ request_id \in DOMAIN test_requests
    /\ Len(test_results) < MaxResults
    /\ test_results' = Append(test_results,
           [ id |-> Len(test_results) + 1, request_id |-> request_id,
             test_name |-> "Test", result |-> "Passed", created_at |-> now ])
    /\ ret' = [op |-> "record_result", id |-> Len(test_results) + 1]
    /\ UNCHANGED <<test_requests, test_seq, asset_refresh_requests, refresh_seq,
                   execution_log, terminal_writes, issued, txn,
                   statusVars, tables, logVars, now, ops, wait>>

\* FOREIGN KEY (request_id) REFERENCES test_requests(id) ON DELETE CASCADE,
\* on test_results and on execution_log: where the connection enforces
\* foreign keys, the rows of the deleted request go with it.
Delete_cascade(rows, request_id) ==
    IF Foreign_keys THEN SelectSeq(rows, LAMBDA row : row.request_id # request_id)
    ELSE rows

\* FOREIGN KEY (request_id) REFERENCES test_requests(id) on console_logs,
\* with no ON DELETE action: where enforced, a request that entries refer to
\* cannot be deleted.
Delete_restricted(rows, request_id) ==
    Foreign_keys /\ \E i \in DOMAIN rows : rows[i].request_id = Some(request_id)

\* DELETE FROM test_requests WHERE id = ? and commit, over a connection
\* opened the way _get_connection opens it.
Delete_test_request(request_id) ==
    /\ request_id \in DOMAIN test_requests
    /\ IF Delete_restricted(console_logs, request_id)
       THEN /\ ret' = [op |-> "delete_test_request", id |-> request_id,
                       raised |-> "IntegrityError"]
            /\ UNCHANGED <<test_requests, test_results, execution_log>>
       ELSE /\ test_requests' = DeleteRow(test_requests, request_id)
            /\ test_results' = Delete_cascade(test_results, request_id)
            /\ execution_log' = Delete_cascade(execution_log, request_id)
            /\ ret' = [op |-> "delete_test_request", id |-> request_id, raised |-> "none"]
    /\ UNCHANGED <<test_seq, asset_refresh_requests, refresh_seq, terminal_writes, issued,
                   txn, statusVars, tables, logVars, now, ops, wait>>

\* ------------------------------------------------------------------ the two ledgers side by side

\* The same operation on both ledgers, one call after the other within one
\* reading of the clock.  ret holds what the two calls returned.

\* Submits that differ in payload only.
PairSubmits ==
    {pair \in TestSubmits \X RefreshSubmits : pair[1].priority = pair[2].priority}

Pair_submit(test_args, refresh_args) ==
    /\ test_seq + refresh_seq + 2 <= 2 * MaxRequests
    /\ Test_insert_error(test_args.payload) = "none"
    /\ Refresh_insert_error(refresh_args.payload) = "none"
    /\ LET test_id == Test_lastrowid
           refresh_id == Refresh_lastrowid
       IN  /\ test_requests' = [i \in DOMAIN test_requests \cup {test_id} |->
                   IF i = test_id THEN NewTestRow(test_id, test_args.payload, test_args.priority)
                   ELSE test_requests[i]]
           /\ test_seq' = test_id
           /\ execution_log' = Append(execution_log,
                  [ id |-> Len(execution_log) + 1,
                    request_id |-> test_id,
                    log_level |-> "INFO",
                    source |-> "Python",
                    message |-> <<"Test request submitted", test_args.payload.request_type,
                                  test_args.payload.test_platform>> ])
           /\ asset_refresh_requests' =
                  [i \in DOMAIN asset_refresh_requests \cup {refresh_id} |->
                      IF i = refresh_id
                      THEN NewRefreshRow(refresh_id, refresh_args.payload, refresh_args.priority)
                      ELSE asset_refresh_requests[i]]
           /\ refresh_seq' = refresh_id
           /\ issued' = [issued EXCEPT !["test"] = @ \cup {test_id},
                                       !["refresh"] = @ \cup {refresh_id}]
           /\ ret' = [op |-> "submit", test |-> test_id, refresh |-> refresh_id]
    /\ UNCHANGED <<terminal_writes, test_results, txn, statusVars, tables, logVars,
                   now, ops, wait>>

Pair_cancel(request_id) ==
    LET test == Test_cancel_update(test_requests, request_id)
        refresh == Refresh_cancel_update(asset_refresh_requests, request_id)
    IN  /\ test_requests' = test.rows
        /\ asset_refresh_requests' = refresh.rows
        /\ terminal_writes' =
               [terminal_writes EXCEPT
                   !["test"][request_id]["cancel"] = @ + test.rowcount,
                   !["refresh"][request_id]["cancel"] = @ + refresh.rowcount]
        /\ ret' = [op |-> "cancel_request", id |-> request_id,
                   test |-> Test_cancel_result(test.rowcount),
                   refresh |-> Refresh_cancel_result(refresh.rowcount)]
        /\ UNCHANGED <<test_seq, refresh_seq, execution_log, issued, test_results, txn,
                       statusVars, tables, logVars, now, ops, wait>>

Pair_claim(request_id) ==
    LET test == Executor_claim_update(test_requests, request_id)
        refresh == Executor_claim_update(asset_refresh_requests, request_id)
    IN  /\ test_requests' = test.rows
        /\ asset_refresh_requests' = refresh.rows
        /\ ret' = [op |-> "executor_claim", id |-> request_id,
                   test |-> test.rowcount, refresh |-> refresh.rowcount]
        /\ UNCHANGED <<test_seq, refresh_seq, execution_log, terminal_writes, issued,
                       test_results, txn, statusVars, tables, logVars, now, ops, wait>>

Pair_finish(request_id, status) ==
    LET test == Executor_finish_test_update(test_requests, request_id,
                    CHOOSE outcome \in TestOutcomes : outcome.status = status)
        refresh == Executor_finish_refresh_update(asset_refresh_requests, request_id,
                       CHOOSE outcome \in RefreshOutcomes : outcome.status = status)
    IN  /\ test_requests' = test.rows
        /\ asset_refresh_requests' = refresh.rows
        /\ terminal_writes' =
               [terminal_writes EXCEPT
                   !["test"][request_id]["executor"] = @ + test.rowcount,
                   !["refresh"][request_id]["executor"] = @ + refresh.rowcount]
        /\ ret' = [op |-> "executor_finish", id |-> request_id,
                   test |-> test.rowcount, refresh |-> refresh.rowcount]
        /\ UNCHANGED <<test_seq, refresh_seq, execution_log, issued, test_results, txn,
                       statusVars, tables, logVars, now, ops, wait>>

Pair_get_pending_requests ==
    /\ \E test_scan \in ScanOrders(Pending(test_requests)),
          refresh_scan \in ScanOrders(Pending(asset_refresh_requests)) :
           ret' = [op |-> "get_pending_requests",
                   test |-> OrderBy(test_scan),
                   refresh |-> [i \in 1 .. Len(refresh_scan) |->
                                   ParsePaths(OrderBy(refresh_scan)[i])]]
    /\ UNCHANGED <<ledgerVars, statusVars, tables, logVars, now, ops, wait>>

\* ------------------------------------------------------------------ specifications of the schema and the log

\* The schema manager, the constructors, the submits and cancels of a
\* TestCoordinator, which is constructed when the file exists, and the
\* executor's appends to the console log.
NextSchema ==
    \/ \E fail_at \in DDLFailures : create_database(fail_at)
    \/ \E fail_at \in DDLFailures : reset_database(fail_at)
    \/ verify_database
    \/ Test_construct
    \/ Refresh_construct
    \/ /\ store_exists
       /\ \E args \in TestSubmits : submit_test_request(args.payload, args.priority)
       /\ UNCHANGED <<statusVars, tables, logVars, test_results, txn, ops, wait>>
    \/ /\ store_exists
       /\ \E request_id \in RequestIds : Test_cancel_request(request_id)
       /\ UNCHANGED <<statusVars, tables, logVars, test_results, txn, ops, wait>>
    \/ Log_append("s1", "Info")

SpecSchema == InitStatus /\ [][NextSchema]_vars

\* Submits on an initialised store, with payloads inside and outside the
\* columns' domains.
NextCheck ==
    /\ \/ Tick
       \/ /\ \E args \in TestSubmits \cup BadTestSubmits :
                 submit_test_request(args.payload, args.priority)
          /\ UNCHANGED <<ops, wait>>
       \/ /\ \E args \in RefreshSubmits \cup BadRefreshSubmits :
                 submit_refresh_request(args.payload, args.priority)
          /\ UNCHANGED <<ops, wait>>
    /\ UNCHANGED <<statusVars, tables, logVars, test_results, txn>>

SpecCheck == Init /\ [][NextCheck]_vars

\* A monitor_logs loop and the executor's appends.
NextTail ==
    \/ \E session_id \in LogSessions, log_level \in LogLevels :
           Log_append(session_id, log_level)
    \/ \E session_id \in {NULL, Some("s1")}, log_level \in {NULL, Some("Error")} :
           Monitor_start(session_id, log_level)
    \/ Monitor_read

SpecTail == Init /\ [][NextTail]_vars

\* clear_old_logs calls, the executor's appends and the clock.
NextPrune ==
    \/ Log_tick
    \/ Log_append("s1", "Info")
    \/ \E days_old \in {0, 1} :
           /\ Prune_cutoff(now, days_old) >= 0
           /\ Prune_count(days_old)
    \/ Prune_delete

SpecPrune == Init /\ [][NextPrune]_vars

\* get_latest_logs calls, the executor's appends and the clock.
NextQuery ==
    \/ Log_tick
    \/ \E session_id \in LogSessions, log_level \in LogLevels :
           Log_append(session_id, log_level)
    \/ \E args \in LatestArgs :
           /\ args.minutes_ago # NULL => now - args.minutes_ago[1] >= 0
           /\ get_latest_logs(args)

SpecQuery == Init /\ [][NextQuery]_vars

\* get_session_summary calls, the executor's appends and the clock.
NextSummary ==
    \/ Log_tick
    \/ \E entry \in SummaryAppends : Log_append(entry.session_id, entry.log_level)
    \/ \E session_id \in SummaryArgs : get_session_summary(session_id)

SpecSummary == Init /\ [][NextSummary]_vars

\* Submits of test requests, the executor's results and console log entries
\* for them, and deletions of requests.
NextCascade ==
    \/ /\ \E args \in {a \in TestSubmits : a.priority = 0} :
              submit_test_request(args.payload, args.priority)
       /\ UNCHANGED <<statusVars, tables, logVars, test_results, txn, ops, wait>>
    \/ \E request_id \in RequestIds : Executor_record_result(request_id)
    \/ \E request_id \in {NULL} \cup {Some(id) : id \in RequestIds} :
           Log_insert("s1", "Info", request_id)
    \/ \E request_id \in RequestIds : Delete_test_request(request_id)

SpecCascade == Init /\ [][NextCascade]_vars

\* A store made by create_database, or one made before console_logs was
\* part of it, which add_console_logs_table has not upgraded yet.
InitHandles ==
    /\ store_exists = TRUE
    /\ tables \in {WithSequence(Range(ExpectedTables)),
                    WithSequence(Range(ExpectedTables) \ {"console_logs"})}
    /\ console_logs = <<>>
    /\ log_seq = 0
    /\ monitor = NoMonitor
    /\ prune = NoPrune
    /\ test_results = <<>>
    /\ txn = NoTxn
    /\ system_status = <<InitialStatusRow(1, 0)>>
    /\ status_seq = 1
    /\ test_requests = <<>>
    /\ test_seq = 0
    /\ asset_refresh_requests = <<>>
    /\ refresh_seq = 0
    /\ execution_log = <<>>
    /\ terminal_writes = [t \in {"test", "refresh"} |-> [i \in RequestIds |-> NoWrites]]
    /\ issued = [t \in {"test", "refresh"} |-> {}]
    /\ now = 0
    /\ ret = [op |-> "none"]
    /\ ops = 0
    /\ wait = NoWait

\* The two loops that sleep, with the statements of the other parties: a
\* behaviour follows either a wait_for_completion on one of the ledgers, or
\* a monitor_logs; the loops run in processes of their own and share
\* nothing but the store.
NextHandles ==
    \/ /\ monitor.pc = "idle" /\ log_seq = 0
       /\ \/ Wait_tick
          \/ /\ ops < MaxWaitOps
             /\ ops' = ops + 1
             /\ \/ \E args \in {a \in TestSubmits : a.priority = 0} :
                       submit_test_request(args.payload, args.priority)
                \/ \E args \in {a \in RefreshSubmits : a.priority = 0} :
                       submit_refresh_request(args.payload, args.priority)
                \/ \E request_id \in RequestIds : Test_cancel_request(request_id)
                \/ \E request_id \in RequestIds : Refresh_cancel_request(request_id)
             /\ UNCHANGED wait
          \/ \E table \in {"test", "refresh"}, request_id \in RequestIds,
                timeout \in WaitTimeouts :
                 Wait_start(table, request_id, timeout, RefreshPollInterval)
          \/ Wait_check
          \/ Wait_wake
       /\ UNCHANGED <<statusVars, tables, logVars, test_results, txn>>
    \/ /\ wait.pc = "idle" /\ ops = 0 /\ now = 0
       /\ \/ Log_append("s1", "Info")
          \/ Monitor_start(NULL, NULL)
          \/ Monitor_read

SpecHandles == InitHandles /\ [][NextHandles]_vars

\* A common sequence of operations applied to both ledgers.
NextParallel ==
    \/ Tick /\ UNCHANGED <<statusVars, tables, logVars, test_results, txn>>
    \/ \E pair \in PairSubmits : Pair_submit(pair[1], pair[2])
    \/ \E request_id \in RequestIds : Pair_cancel(request_id)
    \/ \E request_id \in RequestIds : Pair_claim(request_id)
    \/ \E request_id \in RequestIds, status \in {"completed", "failed"} :
           Pair_finish(request_id, status)
    \/ Pair_get_pending_requests

SpecParallel == Init /\ [][NextParallel]_vars

\* ------------------------------------------------------------------ the submit transaction

\* Variant: a connection in autocommit mode, each INSERT committed at once.
Conn_autocommit_on == TRUE

\* sqlite3.connect with the default isolation_level: the first INSERT opens
\* a transaction, which lasts until commit() or rollback().
Conn_autocommit == FALSE

\* conn = self._get_connection(); the arguments are those of the call.
Txn_begin(payload, priority) ==
    /\ txn.pc = "idle"
    /\ test_seq + refresh_seq < MaxRequests
    /\ txn' = [pc |-> "insert_request", payload |-> payload, priority |-> priority,
               request_id |-> 0, requests |-> <<>>, log |-> <<>>, error |-> "none"]
    /\ UNCHANGED <<test_requests, test_seq, asset_refresh_requests, refresh_seq,
                   execution_log, terminal_writes, issued, test_results,
                   now, ret, ops, wait, statusVars, tables, logVars>>

\* cursor.execute(INSERT INTO test_requests ...); request_id = cursor.lastrowid.
\* The row is the connection's own until the commit.
Txn_insert_request ==
    /\ txn.pc = "insert_request"
    /\ LET error == IF "test_requests" \notin tables THEN "OperationalError"
                    ELSE IF ~Test_check(txn.payload) THEN "IntegrityError"
                    ELSE "none"
           request_id == Test_lastrowid
           row == NewTestRow(request_id, txn.payload, txn.priority)
       IN  IF error # "none"
           THEN /\ txn' = [txn EXCEPT !.pc = "except", !.error = error]
                /\ UNCHANGED <<test_requests, test_seq>>
           ELSE IF Conn_autocommit
           THEN /\ txn' = [txn EXCEPT !.pc = "insert_log", !.request_id = request_id]
                /\ test_requests' = [i \in DOMAIN test_requests \cup {request_id} |->
                                        IF i = request_id THEN row ELSE test_requests[i]]
                /\ test_seq' = request_id
           ELSE /\ txn' = [txn EXCEPT !.pc = "insert_log", !.request_id = request_id,
                                      !.requests = <<row>>]
                /\ UNCHANGED <<test_requests, test_seq>>
    /\ UNCHANGED <<asset_refresh_requests, refresh_seq, execution_log, terminal_writes,
                   issued, test_results, now, ret, ops, wait, statusVars, tables, logVars>>

\* cursor.execute(INSERT INTO execution_log ...), the submission's log row.
Txn_insert_log ==
    /\ txn.pc = "insert_log"
    /\ LET error == IF "execution_log" \notin tables THEN "OperationalError" ELSE "none"
           row == [ id |-> Len(execution_log) + 1,
                    request_id |-> txn.request_id,
                    log_level |-> "INFO",
                    source |-> "Python",
                    message |-> <<"Test request submitted", txn.payload.request_type,
                                  txn.payload.test_platform>> ]
       IN  IF error # "none"
           THEN /\ txn' = [txn EXCEPT !.pc = "except", !.error = error]
                /\ UNCHANGED execution_log
           ELSE IF Conn_autocommit
           THEN /\ txn' = [txn EXCEPT !.pc = "commit"]
                /\ execution_log' = Append(execution_log, row)
           ELSE /\ txn' = [txn EXCEPT !.pc = "commit", !.log = <<row>>]
                /\ UNCHANGED execution_log
    /\ UNCHANGED <<test_requests, test_seq, asset_refresh_requests, refresh_seq,
                   terminal_writes, issued, test_results, now, ret, ops, wait,
                   statusVars, tables, logVars>>

\* conn.commit(), return request_id, conn.close(): the rows the connection
\* holds become the store's, together.
Txn_commit ==
    /\ txn.pc = "commit"
    /\ test_requests' = [i \in DOMAIN test_requests \cup {row.id : row \in Range(txn.requests)} |->
                            IF \E row \in Range(txn.requests) : row.id = i
                            THEN CHOOSE row \in Range(txn.requests) : row.id = i
                            ELSE test_requests[i]]
    /\ test_seq' = txn.request_id
    /\ execution_log' = execution_log \o txn.log
    /\ issued' = [issued EXCEPT !["test"] = @ \cup {txn.request_id}]
    /\ ret' = [op |-> "submit_test_request", payload |-> txn.payload,
               priority |-> txn.priority, result |-> txn.request_id]
    /\ txn' = NoTxn
    /\ UNCHANGED <<asset_refresh_requests, refresh_seq, terminal_writes, test_results,
                   now, ops, wait, statusVars, tables, logVars>>

\* except sqlite3.Error: conn.rollback(), raise, conn.close(): the rows the
\* connection holds are dropped.
Txn_rollback ==
    /\ txn.pc = "except"
    /\ ret' = [op |-> "submit_test_request", payload |-> txn.payload,
               priority |-> txn.priority, raised |-> txn.error]
    /\ txn' = NoTxn
    /\ UNCHANGED <<test_requests, test_seq, asset_refresh_requests, refresh_seq,
                   execution_log, terminal_writes, issued, test_results,
                   now, ops, wait, statusVars, tables, logVars>>

\* A store made by create_database, or one that lacks execution_log.
InitTxn ==
    /\ store_exists = TRUE
    /\ tables \in {WithSequence(Range(ExpectedTables)),
                    WithSequence(Range(ExpectedTables) \ {"execution_log"})}
    /\ console_logs = <<>>
    /\ log_seq = 0
    /\ monitor = NoMonitor
    /\ prune = NoPrune
    /\ test_results = <<>>
    /\ txn = NoTxn
    /\ system_status = <<InitialStatusRow(1, 0)>>
    /\ status_seq = 1
    /\ test_requests = <<>>
    /\ test_seq = 0
    /\ asset_refresh_requests = <<>>
    /\ refresh_seq = 0
    /\ execution_log = <<>>
    /\ terminal_writes = [t \in {"test", "refresh"} |-> [i \in RequestIds |-> NoWrites]]
    /\ issued = [t \in {"test", "refresh"} |-> {}]
    /\ now = 0
    /\ ret = [op |-> "none"]
    /\ ops = 0
    /\ wait = NoWait

\* submit_test_request statement by statement, with the reads other
\* processes make of the store in between.
NextTxn ==
    \/ Tick /\ UNCHANGED <<statusVars, tables, logVars, test_results, txn>>
    \/ \E args \in TestSubmits \cup BadTestSubmits : Txn_begin(args.payload, args.priority)
    \/ Txn_insert_request
    \/ Txn_insert_log
    \/ Txn_commit
    \/ Txn_rollback
    \/ /\ \E request_id \in RequestIds : Test_get_request_status(request_id)
       /\ UNCHANGED <<statusVars, tables, logVars, test_results, txn, ops, wait>>

SpecTxn == InitTxn /\ [][NextTxn]_vars

\* ------------------------------------------------------------------ properties

Tables == {"test", "refresh"}

Rows(t) == IF t = "test" THEN test_requests ELSE asset_refresh_requests

RowsNext(t) == IF t = "test" THEN test_requests' ELSE asset_refresh_requests'

IsCancelOn(t, id) == ret.op = "cancel_request" /\ ret.table = t /\ ret.id = id

\* C1: of a cancel and an executor's terminal transition on the same item at
\* most one changes the row, whatever their order: the updates into a terminal
\* status that reported a changed row never number more than one per item, the
\* item's status is that writer's (cancelled for the cancel, completed or
\* failed for the executor), and the update that came second reported no row.
C1_OneTerminalWriter ==
    /\ \A t \in Tables, id \in RequestIds :
          LET w == terminal_writes[t][id] IN
          /\ w.cancel + w.executor <= 1
          /\ id \in DOMAIN Rows(t) =>
                /\ (Rows(t)[id].status = "cancelled") <=> (w.cancel = 1)
                /\ (Rows(t)[id].status \in {"completed", "failed"}) <=> (w.executor = 1)
    /\ ret.op = "cancel_request" /\ ret.id \in DOMAIN Rows(ret.table)
          /\ Rows(ret.table)[ret.id].status \in {"completed", "failed"}
          => ret.result = FALSE
    /\ ret.op = "executor_finish" /\ ret.id \in DOMAIN Rows(ret.table)
          /\ Rows(ret.table)[ret.id].status = "cancelled"
          => ret.rowcount = 0

\* The executor finished a refresh request first and the cancel that followed
\* changed nothing.
C1_Witness ==
    /\ IsCancelOn("refresh", 1)
    /\ ret.result = FALSE
    /\ 1 \in DOMAIN asset_refresh_requests
    /\ asset_refresh_requests[1].status = "completed"
    /\ terminal_writes["refresh"][1] = [cancel |-> 0, executor |-> 1]

AllowedMoves ==
    { <<"pending", "running">>, <<"running", "completed">>, <<"running", "failed">>,
      <<"pending", "cancelled">>, <<"running", "cancelled">> }

\* C2: in every step the status of every work item either stays as it is or
\* moves by one of pending->running, running->completed, running->failed,
\* pending->cancelled, running->cancelled; so a completed, failed or cancelled
\* item keeps its status for good.
C2_StatusMovesForward ==
    [][\A t \in Tables, id \in RequestIds :
          (id \in DOMAIN Rows(t) /\ id \in DOMAIN RowsNext(t)) =>
              \/ RowsNext(t)[id].status = Rows(t)[id].status
              \/ <<Rows(t)[id].status, RowsNext(t)[id].status>> \in AllowedMoves]_vars

\* A test request was claimed, then cancelled, and the executor's later
\* attempt to finish it changed nothing.
C2_Witness ==
    /\ ret.op = "executor_finish" /\ ret.table = "test" /\ ret.rowcount = 0
    /\ ret.id \in DOMAIN test_requests
    /\ test_requests[ret.id].status = "cancelled"
    /\ test_requests[ret.id].started_at # NULL

\* C3: cancel_request(id) returns True exactly when a row with that id exists
\* and is pending or running when the UPDATE runs; and when it returns True
\* the row is cancelled with completed_at set to the time of the call.
C3_CancelReturnsWhetherCancelled ==
    [][\A id \in RequestIds :
          /\ Test_cancel_request(id) =>
                /\ ret'.result = (id \in DOMAIN test_requests
                                    /\ test_requests[id].status \in {"pending", "running"})
                /\ ret'.result =>
                      /\ test_requests'[id].status = "cancelled"
                      /\ test_requests'[id].completed_at = Some(now)
          /\ Refresh_cancel_request(id) =>
                /\ ret'.result = (id \in DOMAIN asset_refresh_requests
                                    /\ asset_refresh_requests[id].status \in {"pending", "running"})
                /\ ret'.result =>
                      /\ asset_refresh_requests'[id].status = "cancelled"
                      /\ asset_refresh_requests'[id].completed_at = Some(now)]_vars

\* A running refresh request was cancelled: True, cancelled, completed_at set.
C3_Witness ==
    /\ IsCancelOn("refresh", 1)
    /\ ret.result = TRUE
    /\ asset_refresh_requests[1].status = "cancelled"
    /\ asset_refresh_requests[1].started_at # NULL
    /\ asset_refresh_requests[1].completed_at = Some(now)

\* C4: cancel_request on an id with no row, or on a completed, failed or
\* cancelled item, returns False; no cancel raises, whatever its outcome.
C4_CancelNeverRaises ==
    [][\A id \in RequestIds :
          /\ Test_cancel_request(id) =>
                /\ ret'.raised = "none"
                /\ ret'.result \in BOOLEAN
                /\ (id \notin DOMAIN test_requests \/ test_requests[id].status \in Terminal)
                      => ret'.result = FALSE
          /\ Refresh_cancel_request(id) =>
                /\ ret'.raised = "none"
                /\ ret'.result \in BOOLEAN
                /\ (id \notin DOMAIN asset_refresh_requests
                        \/ asset_refresh_requests[id].status \in Terminal)
                      => ret'.result = FALSE]_vars

\* A cancel named an id the refresh table has no row for, and got False.
C4_Witness ==
    /\ ret.op = "cancel_request" /\ ret.table = "refresh"
    /\ ret.id \notin DOMAIN asset_refresh_requests
    /\ ret.id \notin issued["refresh"]
    /\ ret.result = FALSE
    /\ ret.raised = "none"

\* C5: cancel_request on a completed, failed or cancelled item changes no
\* field of any row; a second cancel of a cancelled item leaves its
\* completed_at as the first cancel set it.
C5_CancelOfTerminalChangesNothing ==
    [][\A id \in RequestIds :
          /\ (Test_cancel_request(id) /\ id \in DOMAIN test_requests
                /\ test_requests[id].status \in Terminal)
                => /\ test_requests' = test_requests
                   /\ asset_refresh_requests' = asset_refresh_requests
                   /\ execution_log' = execution_log
          /\ (Refresh_cancel_request(id) /\ id \in DOMAIN asset_refresh_requests
                /\ asset_refresh_requests[id].status \in Terminal)
                => /\ asset_refresh_requests' = asset_refresh_requests
                   /\ test_requests' = test_requests
                   /\ execution_log' = execution_log]_vars

\* A cancelled test request was cancelled again at a later time and kept the
\* completed_at of the first cancel.
C5_Witness ==
    /\ IsCancelOn("test", 1)
    /\ ret.result = FALSE
    /\ 1 \in DOMAIN test_requests
    /\ test_requests[1].status = "cancelled"
    /\ test_requests[1].completed_at # NULL
    /\ test_requests[1].completed_at # Some(now)

\* The fields an executor or a cancel fills in when an item ends.
OutcomeOf(t, row) ==
    IF t = "test"
    THEN <<row.result_summary, row.error_message, row.total_tests, row.passed_tests,
           row.failed_tests, row.skipped_tests, row.duration_seconds>>
    ELSE <<row.result_message, row.error_message, row.duration_seconds>>

\* C6: started_at changes only in the step that takes the item from pending
\* to running, completed_at and the outcome fields only in the step that takes
\* it from pending or running into completed, failed or cancelled; a
\* started_at or completed_at that is set is never changed or cleared, nor are
\* the outcome fields of an item that has ended.
C6_TimestampsAndOutcomeWrittenOnce ==
    [][\A t \in Tables, id \in RequestIds :
          (id \in DOMAIN Rows(t) /\ id \in DOMAIN RowsNext(t)) =>
              LET old == Rows(t)[id]
                  new == RowsNext(t)[id]
              IN  /\ old.started_at # NULL => new.started_at = old.started_at
                  /\ new.started_at # old.started_at =>
                        old.status = "pending" /\ new.status = "running"
                  /\ old.completed_at # NULL =>
                        /\ new.completed_at = old.completed_at
                        /\ OutcomeOf(t, new) = OutcomeOf(t, old)
                  /\ (new.completed_at # old.completed_at
                        \/ OutcomeOf(t, new) # OutcomeOf(t, old)) =>
                        /\ old.status \in {"pending", "running"}
                        /\ new.status \in Terminal
                        /\ new.completed_at # NULL]_vars

\* A refresh request that was started and completed, on which a cancel was
\* tried at a later time.
C6_Witness ==
    /\ IsCancelOn("refresh", 1)
    /\ 1 \in DOMAIN asset_refresh_requests
    /\ asset_refresh_requests[1].status = "completed"
    /\ asset_refresh_requests[1].started_at # NULL
    /\ asset_refresh_requests[1].completed_at # NULL
    /\ asset_refresh_requests[1].completed_at # Some(now)

IsPendingList == ret.op = "get_pending_requests"

ResultIds == [i \in 1 .. Len(ret.result) |-> ret.result[i].id]

\* C7: the list get_pending_requests returns is ordered by priority descending
\* and, among equal priorities, by created_at ascending; a priority-5 request
\* with id 1 and a priority-0 request with id 2 come back as [1, 2].
C7_PendingOrdered ==
    IsPendingList =>
        /\ \A i, j \in 1 .. Len(ret.result) :
              i < j =>
                  \/ ret.result[i].priority > ret.result[j].priority
                  \/ /\ ret.result[i].priority = ret.result[j].priority
                     /\ ret.result[i].created_at <= ret.result[j].created_at
        /\ (/\ Len(ret.result) = 2
            /\ \E i, j \in 1 .. 2 :
                  /\ ret.result[i].id = 1 /\ ret.result[i].priority = 5
                  /\ ret.result[j].id = 2 /\ ret.result[j].priority = 0)
              => ResultIds = <<1, 2>>

\* Two pending test requests, the priority-5 one submitted second and later,
\* listed first.
C7_Witness ==
    /\ IsPendingList /\ ret.table = "test"
    /\ ResultIds = <<2, 1>>
    /\ ret.result[1].priority = 5 /\ ret.result[2].priority = 0
    /\ ret.result[1].created_at > ret.result[2].created_at

PendingIds(t) == {id \in DOMAIN Rows(t) : Rows(t)[id].status = "pending"}

\* C8: get_pending_requests returns the items that are pending when it is
\* called, each exactly once, and nothing else; and an item that is no longer
\* pending never becomes pending again.
C8_PendingListIsThePendingItems ==
    [][/\ Test_get_pending_requests =>
              /\ {ret'.result[i].id : i \in 1 .. Len(ret'.result)} = PendingIds("test")
              /\ Len(ret'.result) = Cardinality(PendingIds("test"))
              /\ \A i \in 1 .. Len(ret'.result) :
                    /\ ret'.result[i].status = "pending"
                    /\ ret'.result[i] = test_requests[ret'.result[i].id]
       /\ Refresh_get_pending_requests =>
              /\ {ret'.result[i].id : i \in 1 .. Len(ret'.result)} = PendingIds("refresh")
              /\ Len(ret'.result) = Cardinality(PendingIds("refresh"))
              /\ \A i \in 1 .. Len(ret'.result) : ret'.result[i].status = "pending"
       /\ \A t \in Tables, id \in RequestIds :
              (id \in DOMAIN Rows(t) /\ id \in DOMAIN RowsNext(t)
                  /\ Rows(t)[id].status # "pending")
              => RowsNext(t)[id].status # "pending"]_vars

\* Of two test requests one was claimed and is running; the list holds only
\* the other.
C8_Witness ==
    /\ IsPendingList /\ ret.table = "test"
    /\ DOMAIN test_requests = {1, 2}
    /\ test_requests[1].status = "running"
    /\ test_requests[2].status = "pending"
    /\ ResultIds = <<2>>

C11_GetReadsTheCurrentRow ==
    [][\A id \in RequestIds :
          /\ Test_get_request_status(id) =>
                /\ ret'.raised = "none"
                /\ id \in DOMAIN test_requests => ret'.row = Some(test_requests[id])
                /\ id \notin DOMAIN test_requests => ret'.row = NULL
          /\ Refresh_get_request_status(id) =>
                /\ ret'.raised = "none"
                /\ id \in DOMAIN asset_refresh_requests =>
                      /\ ret'.row # NULL
                      /\ [ret'.row[1] EXCEPT !.paths = asset_refresh_requests[id].paths]
                            = asset_refresh_requests[id]
                /\ id \notin DOMAIN asset_refresh_requests => ret'.row = NULL]_vars

\* The executor claimed a test request after it was submitted, and the get
\* that followed returned it as running.
C11_Witness ==
    /\ ret.op = "get_request_status" /\ ret.table = "test"
    /\ ret.row # NULL
    /\ ret.row[1].status = "running"
    /\ ret.row[1].started_at # NULL
    /\ ret.row[1] = test_requests[ret.id]

\* How a finished wait_for_completion call ended: the status it returned,
\* "timeout" or "not_found".
WaitOutcome ==
    IF wait.table = "test"
    THEN IF wait.raised = "TimeoutError" THEN "timeout"
         ELSE IF wait.raised = "ValueError" THEN "not_found"
         ELSE wait.result[1].status
    ELSE wait.result[1]

\* C12: a wait_for_completion call that has ended either returned a completed,
\* failed or cancelled status, which is the status it read last, or ended
\* with the timeout outcome (TimeoutError / "timeout") or the not-found
\* outcome (ValueError / "not_found"); it never returns pending or running.
C12_WaitReturnsOnlyTerminal ==
    wait.pc = "done" =>
        /\ WaitOutcome \in Terminal \cup {"timeout", "not_found"}
        /\ WaitOutcome \in Terminal => wait.last_status = Some(WaitOutcome)
        /\ wait.table = "test" =>
              \/ wait.raised = "TimeoutError" /\ wait.result = NULL
              \/ wait.raised = "ValueError" /\ wait.result = NULL
              \/ wait.raised = "none" /\ wait.result # NULL
        /\ wait.table = "refresh" => wait.raised = "none" /\ wait.result # NULL

\* A wait on a refresh request that was cancelled before the first check
\* returned cancelled at once.
C12_Witness ==
    /\ wait.pc = "done" /\ wait.table = "refresh"
    /\ wait.result = Some("cancelled")
    /\ wait.printed = <<"cancelled">>
    /\ wait.checks = 1

\* C13: a status check of a wait in progress that finds the item completed,
\* failed or cancelled ends the wait with exactly that status, not with a
\* timeout and not with another status.
C13_WaitReturnsTheTerminalStatusItFinds ==
    [][(/\ Wait_check
        /\ Wait_within_budget(wait)
        /\ wait.id \in DOMAIN Rows(wait.table)
        /\ Rows(wait.table)[wait.id].status \in Terminal)
       => /\ wait'.pc = "done"
          /\ wait'.raised = "none"
          /\ wait'.table = "test" => wait'.result = Some(test_requests[wait.id])
          /\ wait'.table = "refresh" =>
                wait'.result = Some(asset_refresh_requests[wait.id].status)]_vars

\* A wait saw its test request pending, the request was cancelled while the
\* caller slept, and the next check returned cancelled.
C13_Witness ==
    /\ wait.pc = "done" /\ wait.table = "test"
    /\ wait.raised = "none"
    /\ wait.result # NULL
    /\ wait.result[1].status = "cancelled"
    /\ wait.printed = <<"pending", "cancelled">>
    /\ wait.end_time > wait.start_time

\* C14: no step of wait_for_completion (the call, a check, the wake-up, the
\* return or raise) changes a row of either request table, the counters or
\* the execution log; an item whose wait timed out is as the other parties
\* left it and can still be claimed afterwards.
C14_WaitWritesNothing ==
    [][wait' # wait =>
          /\ test_requests' = test_requests
          /\ asset_refresh_requests' = asset_refresh_requests
          /\ execution_log' = execution_log
          /\ test_seq' = test_seq
          /\ refresh_seq' = refresh_seq]_vars

\* A wait on a pending refresh request timed out; the request was still
\* pending and the executor claimed it afterwards.
C14_Witness ==
    /\ wait.pc = "done" /\ wait.table = "refresh"
    /\ wait.result = Some("timeout")
    /\ wait.last_status = Some("pending")
    /\ ret.op = "executor_claim" /\ ret.table = "refresh" /\ ret.id = wait.id
    /\ ret.rowcount = 1
    /\ asset_refresh_requests[wait.id].status = "running"
    /\ asset_refresh_requests[wait.id].completed_at = NULL

\* C15: a status check that finds no row with the waited id ends the wait
\* with the not-found outcome: ValueError for a test request, "not_found" for
\* a refresh request; also when the row was there at an earlier check.
C15_MissingRowIsNotFound ==
    [][(/\ Wait_check
        /\ Wait_within_budget(wait)
        /\ wait.id \notin DOMAIN Rows(wait.table))
       => /\ wait'.pc = "done"
          /\ wait'.table = "test" => wait'.raised = "ValueError" /\ wait'.result = NULL
          /\ wait'.table = "refresh" =>
                wait'.raised = "none" /\ wait'.result = Some("not_found")]_vars

\* A refresh request was deleted while a wait on it slept; the wait had seen
\* it pending and ended with not_found.
C15_Witness ==
    /\ wait.pc = "done" /\ wait.table = "refresh"
    /\ wait.result = Some("not_found")
    /\ wait.printed = <<"pending">>
    /\ wait.checks = 2
    /\ wait.id \in issued["refresh"]
    /\ wait.id \notin DOMAIN asset_refresh_requests

\* Time the call has taken: to its end once it has ended, to now before.
WaitElapsed == (IF wait.pc = "done" THEN wait.end_time ELSE now) - wait.start_time

\* C16: a check that finds the item pending or running never ends the wait
\* with a status; every wait_for_completion call ends, so one whose item stays
\* pending or running ends with the timeout outcome; and from its start to
\* its end at most timeout + poll_interval passes.
C16_WaitTimesOutWithinBound ==
    /\ [][(/\ Wait_check
           /\ wait.id \in DOMAIN Rows(wait.table)
           /\ Rows(wait.table)[wait.id].status \notin Terminal)
          => \/ wait'.pc = "sleeping" /\ wait'.wake_at = now + wait.poll_interval
             \/ /\ wait'.pc = "done"
                /\ IF wait.table = "test"
                   THEN wait'.raised = "TimeoutError"
                   ELSE wait'.result = Some("timeout")]_vars
    /\ (wait.pc \in {"loop", "sleeping"}) ~> (wait.pc = "done")
    /\ [](wait.pc # "idle" => WaitElapsed <= wait.timeout + wait.poll_interval)

\* The executor claimed a test request and stalled; the wait on it timed out
\* with the request still running, later than its timeout and within
\* timeout + poll_interval.
C16_Witness ==
    /\ wait.pc = "done" /\ wait.table = "test"
    /\ wait.raised = "TimeoutError"
    /\ wait.last_status = Some("running")
    /\ wait.id \in DOMAIN test_requests
    /\ test_requests[wait.id].status = "running"
    /\ WaitElapsed > wait.timeout
    /\ WaitElapsed <= wait.timeout + wait.poll_interval

\* C17 (as claimed): whatever sequence of path strings submit_refresh_request
\* is given as paths, the empty one included, get_request_status on the id it
\* returned yields that sequence, in that order, and so does the item's entry
\* in get_pending_requests.
C17_PathsRoundTrip ==
    [][\A args \in PathSubmits :
          (submit_refresh_request(args.payload, args.priority) /\ args.payload.paths # NULL)
          => LET id == ret'.result
                 got == Refresh_select_by_id(asset_refresh_requests', id)
             IN  /\ got # NULL
                 /\ got[1].paths = args.payload.paths
                 /\ \A scan \in ScanOrders(Pending(asset_refresh_requests')) :
                       \A i \in 1 .. Len(scan) :
                           LET listed == ParsePaths(OrderBy(scan)[i]) IN
                           listed.id = id => listed.paths = args.payload.paths]_vars

\* C18 (as claimed): whatever create_database, reset_database and
\* update_system_heartbeat calls have been made, no two rows of system_status
\* carry the same component.
C18_OneRowPerComponent ==
    \A i, j \in DOMAIN system_status :
        system_status[i].component = system_status[j].component => i = j

\* C19 (as claimed): when update_system_heartbeat(component) has returned,
\* system_status holds a row for that component that is online, with
\* last_heartbeat the time of the call and the message 'Active'.
C19_HeartbeatUpserts ==
    [][\A component \in HeartbeatComponents :
          update_system_heartbeat(component) =>
              \E i \in DOMAIN system_status' :
                  /\ system_status'[i].component = component
                  /\ system_status'[i].status = "online"
                  /\ system_status'[i].last_heartbeat = Some(now)
                  /\ system_status'[i].message = Some("Active")]_vars

\* C20: update_system_heartbeat raises nothing and closes its connection; when
\* its statement fails the call still returns normally and every table,
\* system_status included, is as it was before the call.
C20_HeartbeatSwallowsErrors ==
    [][\A component \in HeartbeatComponents :
          update_system_heartbeat(component) =>
              /\ ret'.raised = "none"
              /\ ret'.closed
              /\ ret'.error # "none" =>
                    /\ system_status' = system_status
                    /\ status_seq' = status_seq
                    /\ store_exists' = store_exists
                    /\ test_requests' = test_requests
                    /\ asset_refresh_requests' = asset_refresh_requests
                    /\ execution_log' = execution_log]_vars

\* A heartbeat for Python on an initialised store: the statement failed, the
\* call returned, and system_status holds the initial row alone.
C20_Witness ==
    /\ ret.op = "update_system_heartbeat" /\ ret.component = "Python"
    /\ ret.error = "OperationalError"
    /\ ret.raised = "none"
    /\ ret.closed
    /\ store_exists
    /\ Len(system_status) = 1
    /\ system_status[1].component = "Database"

\* The rows of system_status that stand for the store itself.
DatabaseRows(rows) == {i \in DOMAIN rows : rows[i].component = "Database"}

\* A store create_database has initialised: the six tables and the initial
\* status row.
Initialised ==
    /\ store_exists
    /\ Range(ExpectedTables) \subseteq tables
    /\ DatabaseRows(system_status) # {}

\* C21 (as claimed): create_database on an initialised store leaves it as it
\* was: the same tables, every row of every table untouched, and one
\* 'Database' row in system_status however many calls were made.
C21_CreateDatabaseIdempotent ==
    [][(create_database(0) /\ Initialised)
          => /\ tables' = tables
             /\ system_status' = system_status
             /\ test_requests' = test_requests
             /\ asset_refresh_requests' = asset_refresh_requests
             /\ execution_log' = execution_log
             /\ console_logs' = console_logs
             /\ Cardinality(DatabaseRows(system_status')) = 1]_vars

\* What a failed submit has to leave alone: every row of every table, and
\* the ids handed out.
SubmitLeftNothing ==
    /\ test_requests' = test_requests
    /\ test_seq' = test_seq
    /\ asset_refresh_requests' = asset_refresh_requests
    /\ refresh_seq' = refresh_seq
    /\ execution_log' = execution_log
    /\ system_status' = system_status
    /\ console_logs' = console_logs
    /\ issued' = issued

\* C22: a submit with an enum value outside the column's domain raises the
\* store's constraint error to the caller, returns no id, inserts neither a
\* request row nor an execution_log entry, and leaves every row of every
\* table as it was.
C22_BadEnumIsRejected ==
    [][/\ \A args \in BadTestSubmits :
             submit_test_request(args.payload, args.priority)
             => /\ "raised" \in DOMAIN ret' /\ ret'.raised = "IntegrityError"
                /\ "result" \notin DOMAIN ret'
                /\ SubmitLeftNothing
       /\ \A args \in BadRefreshSubmits :
             submit_refresh_request(args.payload, args.priority)
             => /\ "raised" \in DOMAIN ret' /\ ret'.raised = "IntegrityError"
                /\ "result" \notin DOMAIN ret'
                /\ SubmitLeftNothing]_vars

\* A test submit with a platform outside the domain was rejected on a store
\* that holds a request and its log entry, which are still there.
C22_Witness ==
    /\ ret.op = "submit_test_request"
    /\ "raised" \in DOMAIN ret /\ ret.raised = "IntegrityError"
    /\ ret.payload.test_platform = "selective"
    /\ DOMAIN test_requests = {1}
    /\ test_requests[1].status = "pending"
    /\ Len(execution_log) = 1
    /\ test_seq = 1

\* The explanations that tell the caller to run initialisation first.
RunInitialisationFirst ==
    { Some("Database not found. Run db_initializer.py first."),
      Some("asset_refresh_requests table not found. Run db_initializer.py first.") }

\* C23 (as claimed): on a ledger whose schema is missing (no store file, or
\* a file without the request table) the constructors raise with the
\* explanation to run initialisation first, a submit raises and returns no
\* id, a cancel raises and returns no boolean, and none of them creates a
\* table.
C23_MissingSchemaFailsLoudly ==
    [][/\ (Test_construct /\ ~store_exists)
             => /\ ret'.raised # "none"
                /\ ret'.message \in RunInitialisationFirst
                /\ tables' = tables
       /\ (Refresh_construct /\ "asset_refresh_requests" \notin tables)
             => /\ ret'.raised # "none"
                /\ ret'.message \in RunInitialisationFirst
                /\ tables' = tables
       /\ \A args \in TestSubmits :
             (submit_test_request(args.payload, args.priority) /\ "test_requests" \notin tables)
             => /\ "raised" \in DOMAIN ret' /\ ret'.raised # "none"
                /\ "result" \notin DOMAIN ret'
                /\ tables' = tables
       /\ \A request_id \in RequestIds :
             (Test_cancel_request(request_id) /\ "test_requests" \notin tables)
             => /\ ret'.raised # "none"
                /\ tables' = tables]_vars

\* C24 (as claimed): when a CREATE TABLE or CREATE INDEX statement of
\* create_database fails, the call raises that error to its caller; it does
\* not return a value.
C24_DDLFailureIsRaised ==
    [][\A fail_at \in DDLFailures \ {0} :
          create_database(fail_at)
          => /\ ret'.error # "none"
             /\ ret'.raised = ret'.error]_vars

\* The six tables verify_database expects.
SixTables ==
    {"test_requests", "test_results", "asset_refresh_requests", "console_logs",
     "execution_log", "system_status"}

C26_ResetGivesAFreshStore ==
    [][reset_database(0)
          => /\ ret'.result = TRUE
             /\ store_exists'
             /\ SixTables \subseteq tables'
             /\ test_requests' = <<>>
             /\ asset_refresh_requests' = <<>>
             /\ execution_log' = <<>>
             /\ console_logs' = <<>>
             /\ Len(system_status') = 1
             /\ system_status'[1].component = "Database"
             /\ system_status'[1].status = "online"
             /\ system_status'[1].id = 1]_vars

\* A reset of a store that held two status rows, a request with its log
\* entry and a console entry: one status row is left, and nothing else.
C26_Witness ==
    /\ ret.op = "reset_database"
    /\ ret.result = TRUE
    /\ ret.existed
    /\ ret.dropped >= 5
    /\ Len(system_status) = 1
    /\ test_requests = <<>>
    /\ console_logs = <<>>

\* The entries of the console log that pass a reader's filters, in id order.
MatchingEntries(session_id, log_level) ==
    SelectSeq(console_logs, LAMBDA row :
        /\ session_id = NULL \/ row.session_id = session_id[1]
        /\ log_level = NULL \/ row.log_level = log_level[1])

\* C27: over any interleaving of the monitor's reads with appends, what the
\* monitor has delivered after a read is every matching entry appended so
\* far, each once and in id order, and the read itself returned exactly the
\* matching entries appended since the read before it.
C27_TailDeliversEachEntryOnce ==
    [][Monitor_read
          => LET want == MatchingEntries(monitor.session_id, monitor.log_level)
                 seen == Len(monitor.printed)
             IN  /\ monitor'.printed = want
                 /\ monitor'.new_logs = SubSeq(want, seen + 1, Len(want))
                 /\ \A i, j \in 1 .. Len(monitor'.printed) :
                       i < j => monitor'.printed[i].id < monitor'.printed[j].id]_vars

\* Three entries were appended between the first read and the second, which
\* returned those three.
C27_Witness ==
    /\ monitor.pc = "running"
    /\ monitor.reads = 2
    /\ Len(monitor.new_logs) = 3
    /\ monitor.printed = monitor.new_logs
    /\ monitor.last_id = 3
    /\ Len(console_logs) = 3

\* The instant an entry was written at.
WrittenAt(row) == row.timestamp[1] * TicksPerDay + row.timestamp[3]

\* The entries written strictly before an instant.
OlderThan(rows, cutoff) == {i \in DOMAIN rows : WrittenAt(rows[i]) < cutoff}

\* C28 (as claimed): a clear_old_logs(days_old) that no append interleaves
\* with deletes exactly the entries written strictly before call time minus
\* days_old, keeps every entry written at or after it, and returns the
\* number it deleted; called again at once with nothing appended it deletes
\* nothing and returns 0.
C28_PruneDeletesOnlyOlderEntries ==
    /\ [][(Prune_delete /\ prune.appended = 0)
             => LET cutoff == prune.call_time - prune.days_old * TicksPerDay
                    old == OlderThan(console_logs, cutoff)
                IN  /\ console_logs' = SelectSeq(console_logs,
                                           LAMBDA row : WrittenAt(row) >= cutoff)
                    /\ ret'.result = Cardinality(old)]_vars
    /\ [][\A days_old \in {0, 1} :
             (Prune_count(days_old) /\ ret'.returned)
             => /\ OlderThan(console_logs, now - days_old * TicksPerDay) = {}
                /\ ret'.result = 0]_vars
    /\ [][\A days_old \in {0, 1} :
             (/\ Prune_count(days_old)
              /\ prune.pc = "done" /\ prune.appended = 0
              /\ prune.days_old = days_old /\ prune.call_time = now)
             => /\ ret'.returned
                /\ ret'.result = 0]_vars

\* C29 (as claimed): however the executor's appends fall between the count
\* and the delete of clear_old_logs, no entry written at or after the cutoff
\* taken at call time is deleted, and the count returned is the number of
\* entries the delete removed.
C29_PruneIsSafeUnderAppends ==
    [][Prune_delete
          => LET cutoff == prune.call_time - prune.days_old * TicksPerDay
                 gone == {i \in DOMAIN console_logs :
                             \A j \in DOMAIN console_logs' :
                                 console_logs'[j].id # console_logs[i].id}
             IN  /\ \A i \in gone : WrittenAt(console_logs[i]) < cutoff
                 /\ ret'.result = Cardinality(gone)]_vars

\* C30 (as claimed): get_latest_logs returns entries that pass every filter
\* given (session_id, log_level, written after call time minus minutes_ago),
\* most recent first, min(limit, number of such entries) of them, and none
\* that is older than a passing entry it left out.
C30_LatestLogsFiltersAndOrders ==
    [][\A args \in LatestArgs :
          get_latest_logs(args)
          => LET pass == {i \in DOMAIN console_logs :
                             /\ args.session_id # NULL
                                   => console_logs[i].session_id = args.session_id[1]
                             /\ args.log_level # NULL
                                   => console_logs[i].log_level = args.log_level[1]
                             /\ args.minutes_ago # NULL
                                   => WrittenAt(console_logs[i]) > now - args.minutes_ago[1]}
                 res == ret'.result
                 ids == {res[k].id : k \in 1 .. Len(res)}
             IN  /\ \A k \in 1 .. Len(res) : \E i \in pass : console_logs[i] = res[k]
                 /\ Cardinality(ids) = Len(res)
                 /\ Len(res) = IF Cardinality(pass) < args.limit THEN Cardinality(pass)
                               ELSE args.limit
                 /\ \A k, l \in 1 .. Len(res) :
                       k < l => WrittenAt(res[k]) >= WrittenAt(res[l])
                 /\ \A k \in 1 .. Len(res) : \A i \in pass :
                       console_logs[i].id \notin ids
                          => WrittenAt(res[k]) >= WrittenAt(console_logs[i])]_vars

\* The entries of a session, and those of one level among them.
EntriesOf(session_id) == {i \in DOMAIN console_logs : console_logs[i].session_id = session_id}

EntriesAt(session_id, log_level) ==
    {i \in EntriesOf(session_id) : console_logs[i].log_level = log_level}

\* The summary tells the truth about a session: its counts per level and
\* the texts of its earliest and latest entries.
SummaryDescribes(result, session_id) ==
    /\ result.session_id = session_id
    /\ result.info_count = Cardinality(EntriesAt(session_id, "Info"))
    /\ result.warning_count = Cardinality(EntriesAt(session_id, "Warning"))
    /\ result.error_count = Cardinality(EntriesAt(session_id, "Error"))
    /\ result.exception_count = Cardinality(EntriesAt(session_id, "Exception"))
    /\ result.assert_count = Cardinality(EntriesAt(session_id, "Assert"))
    /\ EntriesOf(session_id) # {} =>
           /\ result.first_log # NULL /\ result.last_log # NULL
           /\ \E i \in EntriesOf(session_id) : console_logs[i].timestamp = result.first_log[1]
           /\ \E i \in EntriesOf(session_id) : console_logs[i].timestamp = result.last_log[1]
           /\ \A i \in EntriesOf(session_id) :
                  /\ WrittenAt(console_logs[i]) >= fromisoformat(result.first_log[1])
                  /\ WrittenAt(console_logs[i]) <= fromisoformat(result.last_log[1])

\* C31: get_session_summary called without a session_id returns the error
\* result when the log is empty, and otherwise the counts per level and the
\* first and last timestamps of a session that owns an entry no entry of the
\* log is later than.
C31_SummaryResolvesTheLatestSession ==
    [][ (\E session_id \in {NULL, Some("")} : get_session_summary(session_id)) =>
            IF console_logs = <<>>
            THEN ret'.result = [error |-> "No sessions found"]
            ELSE /\ "error" \notin DOMAIN ret'.result
                 /\ \E i \in DOMAIN console_logs :
                        /\ console_logs[i].session_id = ret'.result.session_id
                        /\ \A j \in DOMAIN console_logs :
                               WrittenAt(console_logs[j]) <= WrittenAt(console_logs[i])
                 /\ SummaryDescribes(ret'.result, ret'.result.session_id) ]_vars

\* A summary without a session_id has been resolved to a session whose
\* first entry is older than an entry of the other session, which in turn is
\* older than the session's latest.
C31_Witness ==
    /\ ret.op = "get_session_summary"
    /\ ret.session_id = NULL
    /\ "error" \notin DOMAIN ret.result
    /\ \E i, j, k \in DOMAIN console_logs :
           /\ console_logs[i].session_id = ret.result.session_id
           /\ console_logs[k].session_id = ret.result.session_id
           /\ console_logs[j].session_id # ret.result.session_id
           /\ WrittenAt(console_logs[i]) < WrittenAt(console_logs[j])
           /\ WrittenAt(console_logs[j]) < WrittenAt(console_logs[k])

\* C40: in every summary the five counts per level add up to total_logs,
\* and total_logs is the number of entries the session has at the call; a
\* session_id that is given and has no entries gets zero counts and no
\* first or last timestamp, not the error result.
C40_SummaryCountsAddUp ==
    [][ (\E session_id \in SummaryArgs : get_session_summary(session_id)) =>
            LET result == ret'.result IN
            /\ "error" \notin DOMAIN result =>
                   /\ result.info_count + result.warning_count + result.error_count
                          + result.exception_count + result.assert_count = result.total_logs
                   /\ result.total_logs = Cardinality(EntriesOf(result.session_id))
            /\ (~Summary_omitted(ret'.session_id) /\ EntriesOf(ret'.session_id[1]) = {}) =>
                   /\ "error" \notin DOMAIN result
                   /\ result.session_id = ret'.session_id[1]
                   /\ result.total_logs = 0
                   /\ result.info_count = 0 /\ result.warning_count = 0
                   /\ result.error_count = 0 /\ result.exception_count = 0
                   /\ result.assert_count = 0
                   /\ result.first_log = NULL /\ result.last_log = NULL ]_vars

\* A summary of a session with entries of two levels has been returned
\* while the log holds entries of another session as well.
C40_Witness ==
    /\ ret.op = "get_session_summary"
    /\ "error" \notin DOMAIN ret.result
    /\ ret.result.info_count > 0
    /\ ret.result.error_count > 0
    /\ ret.result.total_logs < Len(console_logs)


\* The requests a sequence of rows refers to.
ReferencedBy(rows) == {rows[i].request_id : i \in DOMAIN rows}

\* C32: an append of a console log entry succeeds whether or not its
\* request_id names an existing test request, and a deletion of a test
\* request never fails and leaves the console log as it was.
C32_LogEntriesOutliveTheirRequest ==
    [][ /\ \A request_id \in {NULL} \cup {Some(id) : id \in RequestIds} :
               Log_insert("s1", "Info", request_id) =>
                   /\ "raised" \notin DOMAIN ret'
                   /\ Len(console_logs') = Len(console_logs) + 1
                   /\ console_logs'[Len(console_logs')].request_id = request_id
        /\ \A request_id \in RequestIds :
               Delete_test_request(request_id) =>
                   /\ ret'.raised = "none"
                   /\ request_id \notin DOMAIN test_requests'
                   /\ console_logs' = console_logs ]_vars

\* A request has just been deleted while the log holds an entry written for
\* it, and an entry written for a request that never existed.
C32_Witness ==
    /\ ret.op = "delete_test_request"
    /\ ret.id \in issued["test"]
    /\ ret.id \notin DOMAIN test_requests
    /\ Some(ret.id) \in ReferencedBy(console_logs)
    /\ \E request_id \in RequestIds :
           request_id \notin issued["test"] /\ Some(request_id) \in ReferencedBy(console_logs)

\* C33: no test_results row and no execution_log row refers to a test
\* request that is no longer in test_requests.
C33_NoResultOfADeletedRequest ==
    /\ ReferencedBy(test_results) \subseteq DOMAIN test_requests
    /\ ReferencedBy(execution_log) \subseteq DOMAIN test_requests

\* C34: while wait_for_completion or monitor_logs sleeps, the call holds no
\* connection it opened, and a call that has ended, by returning or by
\* raising, holds none either.
C34_NoConnectionHeldAcrossSleep ==
    /\ wait.pc \in {"sleeping", "done"} => wait.open = 0
    /\ (monitor.pc = "running" /\ monitor.reads > 0) => monitor.open = 0
    /\ monitor.pc = "raised" => monitor.open = 0

\* The fields the ledgers have in common besides the payload.
NonPayloadFields == {"status", "started_at", "completed_at", "error_message"}

\* The non-payload fields of a row that a step wrote.
FieldsWritten(before, after, request_id) ==
    IF request_id \notin DOMAIN before \/ request_id \notin DOMAIN after THEN {}
    ELSE {field \in NonPayloadFields : before[request_id][field] # after[request_id][field]}

\* C35: after a common sequence of operations the two ledgers hold the same
\* ids with the same statuses, every operation wrote the same non-payload
\* fields on both, a cancel returned the same on both, and the pending lists
\* name the same ids in the same order.
C35_LedgersBehaveAlike ==
    [][ /\ DOMAIN test_requests' = DOMAIN asset_refresh_requests'
        /\ \A request_id \in DOMAIN test_requests' :
               test_requests'[request_id].status = asset_refresh_requests'[request_id].status
        /\ \A request_id \in RequestIds :
               FieldsWritten(test_requests, test_requests', request_id)
                   = FieldsWritten(asset_refresh_requests, asset_refresh_requests', request_id)
        /\ (\E request_id \in RequestIds : Pair_cancel(request_id)) =>
               ret'.test = ret'.refresh
        /\ Pair_get_pending_requests =>
               [i \in DOMAIN ret'.test |-> ret'.test[i].id]
                   = [i \in DOMAIN ret'.refresh |-> ret'.refresh[i].id] ]_vars

\* Whether a pass of the waiting caller's loop reads the store, and the
\* status it reads there, if the item exists.
WaitReads == now - wait.start_time < wait.timeout

WaitFinds == IF wait.id \in DOMAIN Rows(wait.table)
             THEN Some(Rows(wait.table)[wait.id].status) ELSE NULL

\* C36: a status check prints a status line exactly when the status it
\* reads differs from the one the previous check of the same call read, the
\* first read counting as a change; the lines printed are then the statuses
\* read with repetitions dropped, one line for each change.
C36_StatusLineOnlyOnChange ==
    [][ Wait_check =>
            IF WaitReads /\ WaitFinds # NULL
            THEN wait'.printed =
                     IF wait.printed # <<>> /\ wait.printed[Len(wait.printed)] = WaitFinds[1]
                     THEN wait.printed
                     ELSE Append(wait.printed, WaitFinds[1])
            ELSE wait'.printed = wait.printed ]_vars

\* A wait polled twice, read pending both times and printed one line.
C36_Witness ==
    /\ wait.checks = 2
    /\ wait.printed = <<"pending">>
    /\ wait.pc = "sleeping"

\* C38: with timeout > 0 the first pass of the loop reads the store at the
\* time of the call, and an item that is terminal or missing then ends the
\* call with that outcome, no sleep before it; with timeout <= 0 the call
\* ends with the timeout outcome without a single read, whatever the item
\* is.  A call that reports timeout has read the store at least once
\* exactly if its timeout was positive.
C38_FirstCheckIffPositiveTimeout ==
    [][ Wait_check =>
            /\ wait.timeout <= 0 =>
                   /\ wait'.pc = "done" /\ wait'.checks = 0
                   /\ wait.table = "test" => wait'.raised = "TimeoutError"
                   /\ wait.table = "refresh" => wait'.result = Some("timeout")
            /\ (wait.timeout > 0 /\ wait.checks = 0) =>
                   /\ now = wait.start_time
                   /\ wait'.checks = 1
                   /\ (WaitFinds = NULL \/ WaitFinds[1] \in Terminal) => wait'.pc = "done"
                   /\ (WaitFinds = NULL /\ wait.table = "test") => wait'.raised = "ValueError"
                   /\ (WaitFinds = NULL /\ wait.table = "refresh") =>
                          wait'.result = Some("not_found")
                   /\ (WaitFinds # NULL /\ WaitFinds[1] \in Terminal) =>
                          /\ wait'.raised = "none"
                          /\ wait.table = "test" => wait'.result[1].status = WaitFinds[1]
                          /\ wait.table = "refresh" => wait'.result = WaitFinds
            /\ (wait'.pc = "done"
                   /\ IF wait.table = "test" THEN wait'.raised = "TimeoutError"
                      ELSE wait'.result = Some("timeout")) =>
                   (wait'.checks >= 1 <=> wait.timeout > 0) ]_vars

\* A wait with timeout 0 on an item that was already cancelled ended with
\* the timeout outcome and no read.
C38_Witness ==
    /\ wait.pc = "done" /\ wait.timeout = 0 /\ wait.checks = 0
    /\ wait.id \in DOMAIN Rows(wait.table)
    /\ Rows(wait.table)[wait.id].status = "cancelled"
    /\ wait.end_time = wait.start_time

\* Whether the store shows the execution_log entry of a request's submission.
SubmissionLogged(request_id) ==
    \E i \in DOMAIN execution_log :
        /\ execution_log[i].request_id = request_id
        /\ execution_log[i].message[1] = "Test request submitted"

\* What another process can read of the submissions: for every id, the
\* request row and the log entry of its submission, both or neither.
BothRowsOrNeither ==
    \A request_id \in RequestIds :
        request_id \in DOMAIN test_requests <=> SubmissionLogged(request_id)

\* C37: the request row and its 'Test request submitted' log entry are
\* written in one transaction: after every step of a submit the store other
\* processes read holds both rows or neither, and a submit that ends in an
\* error, at the first INSERT or at the second, leaves the two tables as
\* they were when it began, without a row of the id it was given.
C37_SubmitIsOneTransaction ==
    [][ /\ BothRowsOrNeither'
        /\ Txn_rollback =>
               /\ Test_lastrowid \notin DOMAIN test_requests'
               /\ ~SubmissionLogged(Test_lastrowid)'
               /\ Len(execution_log') = Cardinality(DOMAIN test_requests')
               /\ test_seq' = Cardinality(DOMAIN test_requests') ]_vars

\* A submit whose first INSERT went through and whose second failed has
\* ended with the error.
C37_Witness ==
    /\ txn = NoTxn
    /\ ret.op = "submit_test_request"
    /\ "raised" \in DOMAIN ret /\ ret.raised = "OperationalError"
    /\ "test_requests" \in tables
    /\ Test_check(ret.payload)

\* The timestamps a row's status calls for.
TimestampsAgree(row) ==
    /\ row.status = "pending" => row.started_at = NULL /\ row.completed_at = NULL
    /\ row.status = "running" => row.started_at # NULL /\ row.completed_at = NULL
    /\ row.status \in Terminal => row.completed_at # NULL

\* C39: after every step each item's timestamps agree with its status:
\* pending, neither started_at nor completed_at; running, started_at and no
\* completed_at; completed, failed or cancelled, completed_at.  A step that
\* cancels an item leaves its started_at as it was: unset when the item was
\* pending, the time of the claim when it was running.
C39_TimestampsAgreeWithStatus ==
    [][ \A t \in Tables :
            /\ \A id \in DOMAIN RowsNext(t) : TimestampsAgree(RowsNext(t)[id])
            /\ \A id \in DOMAIN Rows(t) \cap DOMAIN RowsNext(t) :
                   (Rows(t)[id].status # "cancelled" /\ RowsNext(t)[id].status = "cancelled") =>
                       /\ RowsNext(t)[id].started_at = Rows(t)[id].started_at
                       /\ RowsNext(t)[id].completed_at = Some(now)
                       /\ Rows(t)[id].status = "pending" => RowsNext(t)[id].started_at = NULL
                       /\ Rows(t)[id].status = "running" => RowsNext(t)[id].started_at # NULL ]_vars

\* A test request cancelled while pending: completed_at set at the cancel,
\* started_at never set.
C39_Witness ==
    /\ ret.op = "cancel_request" /\ ret.table = "test" /\ ret.result = TRUE
    /\ ret.id \in DOMAIN test_requests
    /\ test_requests[ret.id].status = "cancelled"
    /\ test_requests[ret.id].started_at = NULL
    /\ test_requests[ret.id].completed_at = Some(now)

====
